---- MODULE Spec2Model ----
(***************************************************************************)
(* Model of src/src/word_converter.py: the file-safety layer               *)
(* (FileSafetyManager), the two conversion entry points and main(), and    *)
(* the line-oriented markup parser (MarkdownToWordConverter).              *)
(*                                                                         *)
(* Spec       the file-safety layer and the conversion runs                *)
(* SpecParse  MarkdownToWordConverter._build_document, one line per step   *)
(* SpecFence  the same on markup made of code fences                       *)
(* SpecRuns   WordToMarkdownConverter on one plain paragraph of runs        *)
(* SpecTables WordToMarkdownConverter on one table                         *)
(* SpecLines  WordToMarkdownConverter on paragraphs and tables in any order *)
(* SpecRecord several documents converted by one WordToMarkdownConverter   *)
(* SpecRound  document -> markup -> document                               *)
(* SpecMd     several markup files converted by one MarkdownToWordConverter*)
(***************************************************************************)
EXTENDS Integers, Sequences, FiniteSets, TLC

\* ------------------------------------------------------------- bounds
\* File contents are 1..MaxContent (0: the file does not exist).
MaxContent == 2
\* Numbered backups file.ext.backup.1 .. file.ext.backup.MaxBackups
MaxBackups == 2
\* Operations (conversion runs and direct create_backup calls) per behaviour
MaxOps == 3
\* Lines of a markup document handed to _build_document
MaxLines == 4
\* Rows and columns of a table of a Word document
MaxRows == 2
MaxCols == 2
\* Runs of a plain paragraph of a Word document
MaxRuns == 2
\* Paragraphs of a Word document that is converted and converted back
MaxParas == 2
\* Blocks (paragraphs and tables) of the body of a Word document
MaxBlocks == 3

VARIABLES
  \* ---- file-safety layer and conversion runs
  fs,            \* file system: file name -> content, 0 when absent
  pc,            \* position of the current run
  entry,         \* "main" (command line) or "api" (convert_* called directly)
  cfg,           \* SafetyConfig of the run
  source_file,   \* Path(docx_path) / Path(md_path): the input of the behaviour's runs
  target_file,   \* the output of the behaviour's runs
  direction,     \* "docx2md" | "md2docx"
  reason,        \* reason returned by safe_write_check
  prompted,      \* input() was called in this run
  response,      \* what input() returned (NoResponse: not asked, EOFResponse)
  backup_path,   \* value returned by create_backup in this run (<<>>: None)
  copy_failed,   \* shutil.copy2 raised in this run
  pre,           \* file system when the run started
  wrote,         \* the run wrote the target
  result,        \* "running" | "true" | "false" | "exception"
  exit_code,     \* exit status of main (-1: not exited)
  ops,           \* operations started so far
  \* ---- MarkdownToWordConverter._build_document
  content,       \* the markup lines handed to _build_document (never changed)
  lines,         \* content.split('\n'), as the loop sees it
  line_num,      \* index (from 0) of the next line of the for loop
  in_code_block,
  code_block_content,
  doc,           \* the elements added to the document, in order
  ppc,           \* "idle" | "ready" | "loop" | "done" | "error"
  \* ---- MarkdownToWordConverter, the object and its input file
  markup,        \* f.read() of the markup file of the run
  config,        \* self.config
  loaded_config, \* the config main built and handed to the constructor
  record,        \* the record returned by _extract_metadata in this run
  \* ---- WordToMarkdownConverter, the object and its input file
  document,      \* Document(docx_path): paragraphs and tables
  metadata,      \* self.metadata
  current_line,  \* self.current_line
  markdown_content, \* the text returned by _extract_content_and_metadata
  full_content,  \* the text written to the target by the last run
  wpc,           \* "idle" | "ready" | "written"
  conversions    \* conversions made so far by the converter objects

safetyVars == <<fs, pc, entry, cfg, source_file, target_file, direction, reason,
                prompted, response, backup_path, copy_failed, pre, wrote,
                result, exit_code, ops>>

parseVars == <<content, lines, line_num, in_code_block, code_block_content,
               doc, ppc>>

mdVars == <<markup, config, loaded_config, record>>

wordVars == <<document, metadata, current_line, markdown_content,
              full_content, wpc>>

convVars == <<mdVars, wordVars, conversions>>

\* --------------------------------------------------------------- paths
\* A file name is the sequence of its dot-separated parts: a.md = <<"a","md">>.
Stem(p) == IF Len(p) > 1 THEN SubSeq(p, 1, Len(p) - 1) ELSE p

Suffix(p) == IF Len(p) > 1 THEN <<p[Len(p)]>> ELSE <<>>

\* pathlib's with_suffix: the last suffix is replaced by the parts s.
WithSuffix(p, s) == Stem(p) \o s

backup_suffix == <<"backup">>

CounterStr(k) == <<"1", "2", "3", "4", "5", "6">>[k]

\* The (input, output) pairs of the modelled behaviours: both directions, a
\* target with the source's stem and one with another stem.
Invocations ==
  { << <<"a", "docx">>, <<"a", "md">> >>, << <<"a", "docx">>, <<"b", "md">> >>,
    << <<"a", "md">>, <<"a", "docx">> >>, << <<"b", "md">>, <<"a", "docx">> >> }

\* file.ext.backup (k = 0) and file.ext.backup.k
BackupName(p, k) ==
  IF k = 0 THEN WithSuffix(p, Suffix(p) \o backup_suffix)
  ELSE WithSuffix(p, Suffix(p) \o backup_suffix \o <<CounterStr(k)>>)

BackupNames(p) == { BackupName(p, k) : k \in 0..MaxBackups }

\* The files a run on (s, t) can read or write.
FilesOf(s, t) == {s, t} \cup BackupNames(t)

Contents == 1..MaxContent

Exists(f, p) == f[p] # 0

\* ------------------------------------------------- FileSafetyManager
\* SHA-256 is modelled as an injective tagging of the bytes.
sha256(bytes) == <<"sha256", bytes>>

calculate_file_hash(f, p) == IF ~Exists(f, p) THEN <<>> ELSE sha256(f[p])

\* Mutant: no collision is ever detected.
detect_conversion_collision_never(f, s, t) == FALSE

\* Mutant: the stem comparison left out.
detect_conversion_collision_nostem(f, s, t) ==
  IF ~Exists(f, t) THEN FALSE
  ELSE calculate_file_hash(f, s) # calculate_file_hash(f, t)

detect_conversion_collision(f, s, t) ==
  IF ~Exists(f, t) THEN FALSE
  ELSE IF Stem(s) = Stem(t)
       THEN calculate_file_hash(f, s) # calculate_file_hash(f, t)
       ELSE FALSE

\* The while loop of create_backup: the first name that does not exist.
RECURSIVE FreeBackupPath(_, _, _, _)
FreeBackupPath(f, file_path, candidate, counter) ==
  IF Exists(f, candidate)
  THEN FreeBackupPath(f, file_path,
         WithSuffix(file_path,
           Suffix(file_path) \o backup_suffix \o <<CounterStr(counter)>>),
         counter + 1)
  ELSE candidate

\* A free backup name exists within the modelled names (caps the counter).
HasFreeBackup(f, p) == \E b \in BackupNames(p) : ~Exists(f, b)

\* Mutant: the while loop left out, the backup name is never versioned.
create_backup_path_unversioned(f, file_path) ==
  WithSuffix(file_path, Suffix(file_path) \o backup_suffix)

create_backup_path(f, file_path) ==
  FreeBackupPath(f, file_path,
    WithSuffix(file_path, Suffix(file_path) \o backup_suffix), 1)

\* create_backup: the file system afterwards and the value returned.
\* copy_ok: whether shutil.copy2 succeeds.
create_backup(f, file_path, copy_ok) ==
  IF ~Exists(f, file_path) THEN [fs |-> f, path |-> <<>>]
  ELSE LET b == create_backup_path(f, file_path)
       IN  IF copy_ok
           THEN [fs |-> [f EXCEPT ![b] = f[file_path]], path |-> b]
           ELSE [fs |-> f, path |-> <<>>]

\* ---- confirm_overwrite
IsSpace(c) == c \in {" ", "\t", "\n"}

LowerChar(c) ==
  CASE c = "Y" -> "y" [] c = "E" -> "e" [] c = "S" -> "s" [] c = "N" -> "n"
    [] c = "O" -> "o" [] OTHER -> c

Lower(s) == [i \in 1..Len(s) |-> LowerChar(s[i])]

RECURSIVE LStrip(_)
LStrip(s) == IF s # <<>> /\ IsSpace(s[1]) THEN LStrip(Tail(s)) ELSE s

RECURSIVE RStrip(_)
RStrip(s) ==
  IF s # <<>> /\ IsSpace(s[Len(s)]) THEN RStrip(SubSeq(s, 1, Len(s) - 1)) ELSE s

Strip(s) == LStrip(RStrip(s))

\* What the operator may type at the prompt.
Answers ==
  { <<>>, <<"Y">>, <<"n">>, <<" ", "Y", "e", "S", "\t">>, <<"y", "e">>,
    <<"y", " ", "e", "s">> }

NoResponse == <<"<none>">>

EOFResponse == <<"<EOF>">>

\* Mutant: the answer compared by its first letter.
AffirmativePrefix(resp) ==
  LET r == Strip(Lower(resp)) IN r # <<>> /\ r[1] = "y"

\* Mutant: .lower().strip() left out.
AffirmativeExact(resp) == resp \in { <<"y">>, <<"y", "e", "s">> }

\* response in ['y', 'yes'] after .lower().strip()
Affirmative(resp) == Strip(Lower(resp)) \in { <<"y">>, <<"y", "e", "s">> }

\* confirm_overwrite calls input() only when require_confirmation is set.
\* Mutant: require_confirmation not consulted.
ConfirmPromptsAlways(c) == TRUE

ConfirmPrompts(c) == c.require_confirmation

\* ---- safe_write_check, up to its first blocking point
\* Mutant: the backup step left out.
AfterConfirmNoBackup(c) == "translate"

\* Where safe_write_check goes after a confirmed (or unneeded) confirmation.
AfterConfirm(c) == IF c.create_backup THEN "backup" ELSE "translate"

\* Mutant: the force flag (require_confirmation off) skips the collision check.
GateNextForceBypass(c, f, s, t) ==
  IF c.require_confirmation /\ detect_conversion_collision(f, s, t)
  THEN "collision"
  ELSE IF Exists(f, t)
       THEN IF c.prevent_overwrite /\ ConfirmPrompts(c) THEN "prompt"
            ELSE AfterConfirm(c)
       ELSE "translate"

GateNext(c, f, s, t) ==
  IF detect_conversion_collision(f, s, t) THEN "collision"
  ELSE IF Exists(f, t)
       THEN IF c.prevent_overwrite /\ ConfirmPrompts(c) THEN "prompt"
            ELSE AfterConfirm(c)
       ELSE "translate"

SafetyConfigs ==
  [require_confirmation : BOOLEAN, create_backup : BOOLEAN,
   check_hash : BOOLEAN, prevent_overwrite : BOOLEAN]

DefaultSafetyConfig ==
  [require_confirmation |-> TRUE, create_backup |-> TRUE,
   check_hash |-> TRUE, prevent_overwrite |-> TRUE]

\* ------------------------------------------------------------- Init
\* The locals of a run before it starts (and after the process has ended).
NoRun ==
  /\ entry = "none"
  /\ cfg = DefaultSafetyConfig
  /\ direction = "none"
  /\ reason = "none"
  /\ prompted = FALSE
  /\ response = NoResponse
  /\ backup_path = <<>>
  /\ copy_failed = FALSE
  /\ wrote = FALSE
  /\ result = "idle"
  /\ exit_code = -1

SafetyInit ==
  /\ \E inv \in Invocations :
       /\ source_file = inv[1]
       /\ target_file = inv[2]
       /\ fs \in { f \in [FilesOf(inv[1], inv[2]) -> 0..MaxContent] :
                     \A b \in BackupNames(inv[2]) : f[b] = 0 }
  /\ pc = "idle"
  /\ NoRun
  /\ pre = fs
  /\ ops = 0

\* ------------------------------------------------------------ actions
\* Direction auto-detected by main from the input suffix.
DirectionOf(p) ==
  IF Suffix(p) = <<"docx">> THEN "docx2md"
  ELSE IF Suffix(p) = <<"md">> THEN "md2docx" ELSE "none"

BeginRun(e, c, d) ==
  /\ entry' = e
  /\ cfg' = c
  /\ direction' = d
  /\ pre' = fs
  /\ ops' = ops + 1
  /\ UNCHANGED <<fs, source_file, target_file, reason, prompted, response,
                 backup_path, copy_failed, wrote>>

\* The run ends with value res: main exits 0 on True and 1 on False or on an
\* exception (lines 1036-1040); a library call returns or raises.
Finish(res) ==
  /\ pc' = "done"
  /\ result' = res
  /\ exit_code' = IF entry = "main" THEN (IF res = "true" THEN 0 ELSE 1) ELSE -1

\* main(): arguments parsed, input checked, SafetyConfig built from the flags.
MainStart ==
  /\ pc = "idle"
  /\ ops < MaxOps
  /\ HasFreeBackup(fs, target_file)
  /\ DirectionOf(source_file) # "none"
  /\ \E force \in BOOLEAN, no_backup \in BOOLEAN, no_hash_check \in BOOLEAN :
       /\ BeginRun("main",
            [require_confirmation |-> ~force, create_backup |-> ~no_backup,
             check_hash |-> ~no_hash_check, prevent_overwrite |-> TRUE],
            DirectionOf(source_file))
       /\ IF ~Exists(fs, source_file)
          THEN pc' = "done" /\ result' = "false" /\ exit_code' = 1
          ELSE pc' = "convert" /\ result' = "running" /\ exit_code' = -1
  /\ UNCHANGED <<parseVars, convVars>>

\* convert_docx_to_md / convert_md_to_docx called by a library user, with any
\* SafetyConfig.
ApiStart ==
  /\ pc = "idle"
  /\ ops < MaxOps
  /\ HasFreeBackup(fs, target_file)
  /\ \E c \in SafetyConfigs :
       /\ BeginRun("api", c, DirectionOf(source_file))
       /\ pc' = "convert"
       /\ result' = "running"
       /\ exit_code' = -1
  /\ UNCHANGED <<parseVars, convVars>>

\* Mutant: safe_write_check takes the backup before any of its checks.
ConvertEnterBackupFirst ==
  /\ pc = "convert"
  /\ LET r == create_backup(fs, target_file, TRUE)
     IN  /\ fs' = r.fs
         /\ backup_path' = r.path
  /\ IF ~Exists(fs, source_file)
     THEN /\ Finish("false")
          /\ reason' = "missing"
     ELSE LET nxt == GateNext(cfg, fs, source_file, target_file)
          IN  IF nxt = "collision"
              THEN /\ Finish("false")
                   /\ reason' = "collision"
              ELSE /\ pc' = nxt
                   /\ UNCHANGED <<result, reason, exit_code>>
  /\ UNCHANGED <<entry, cfg, source_file, target_file, direction, prompted,
                 response, copy_failed, pre, wrote, ops>>
  /\ UNCHANGED <<parseVars, convVars>>

\* convert_*: the source check and safe_write_check up to input().
ConvertEnter ==
  /\ pc = "convert"
  /\ IF ~Exists(fs, source_file)
     THEN /\ Finish("false")
          /\ reason' = "missing"
     ELSE LET nxt == GateNext(cfg, fs, source_file, target_file)
          IN  IF nxt = "collision"
              THEN /\ Finish("false")
                   /\ reason' = "collision"
              ELSE /\ pc' = nxt
                   /\ UNCHANGED <<result, reason, exit_code>>
  /\ UNCHANGED <<fs, entry, cfg, source_file, target_file, direction, prompted,
                 response, backup_path, copy_failed, pre, wrote, ops>>
  /\ UNCHANGED <<parseVars, convVars>>

\* input() returns what the operator typed.
PromptAnswer ==
  /\ pc = "prompt"
  /\ \E a \in Answers :
       /\ prompted' = TRUE
       /\ response' = a
       /\ IF Affirmative(a)
          THEN /\ pc' = AfterConfirm(cfg)
               /\ UNCHANGED <<result, reason, exit_code>>
          ELSE /\ Finish("false")
               /\ reason' = "cancelled"
  /\ UNCHANGED <<fs, entry, cfg, source_file, target_file, direction,
                 backup_path, copy_failed, pre, wrote, ops>>
  /\ UNCHANGED <<parseVars, convVars>>

\* Mutant: a failed read of the answer counts as a yes.
PromptEOFImplicitYes ==
  /\ pc = "prompt"
  /\ prompted' = TRUE
  /\ response' = EOFResponse
  /\ pc' = AfterConfirm(cfg)
  /\ UNCHANGED <<fs, entry, cfg, source_file, target_file, direction, reason,
                 backup_path, copy_failed, pre, wrote, result, exit_code, ops>>
  /\ UNCHANGED <<parseVars, convVars>>

\* input() raises EOFError: there is no terminal to read from.  The exception
\* leaves safe_write_check and convert_* (the call is outside their try).
PromptEOF ==
  /\ pc = "prompt"
  /\ prompted' = TRUE
  /\ response' = EOFResponse
  /\ Finish("exception")
  /\ UNCHANGED <<fs, entry, cfg, source_file, target_file, direction, reason,
                 backup_path, copy_failed, pre, wrote, ops>>
  /\ UNCHANGED <<parseVars, convVars>>

\* Mutant: a failed backup makes safe_write_check fail.
GateBackupAbort ==
  /\ pc = "backup"
  /\ \E copy_ok \in BOOLEAN :
       LET r == create_backup(fs, target_file, copy_ok)
       IN  /\ fs' = r.fs
           /\ backup_path' = r.path
           /\ copy_failed' = ~copy_ok
           /\ IF copy_ok
              THEN pc' = "translate" /\ UNCHANGED <<result, reason, exit_code>>
              ELSE Finish("false") /\ reason' = "backup failed"
  /\ UNCHANGED <<entry, cfg, source_file, target_file, direction,
                 prompted, response, pre, wrote, ops>>
  /\ UNCHANGED <<parseVars, convVars>>

\* safe_write_check lines 231-236: the backup, then "Safe to proceed".
GateBackup ==
  /\ pc = "backup"
  /\ \E copy_ok \in BOOLEAN :
       LET r == create_backup(fs, target_file, copy_ok)
       IN  /\ fs' = r.fs
           /\ backup_path' = r.path
           /\ copy_failed' = ~copy_ok
  /\ pc' = "translate"
  /\ UNCHANGED <<entry, cfg, source_file, target_file, direction, reason,
                 prompted, response, pre, wrote, result, exit_code, ops>>
  /\ UNCHANGED <<parseVars, convVars>>

\* The try block of convert_*: translate and write the target.
TranslateWrite ==
  /\ pc = "translate"
  /\ \E c \in Contents :
       /\ fs' = [fs EXCEPT ![target_file] = c]
       /\ wrote' = TRUE
  /\ reason' = "ok"
  /\ Finish("true")
  /\ UNCHANGED <<entry, cfg, source_file, target_file, direction, prompted,
                 response, backup_path, copy_failed, pre, ops>>
  /\ UNCHANGED <<parseVars, convVars>>

\* The try block raises before the target is opened: except -> return False.
TranslateRaise ==
  /\ pc = "translate"
  /\ reason' = "ok"
  /\ Finish("false")
  /\ UNCHANGED <<fs, entry, cfg, source_file, target_file, direction, prompted,
                 response, backup_path, copy_failed, pre, wrote, ops>>
  /\ UNCHANGED <<parseVars, convVars>>

\* The process has ended; the next invocation starts from fresh objects.
ProcessEnd ==
  /\ pc = "done"
  /\ pc' = "idle"
  /\ entry' = "none"
  /\ cfg' = DefaultSafetyConfig
  /\ direction' = "none"
  /\ reason' = "none"
  /\ prompted' = FALSE
  /\ response' = NoResponse
  /\ backup_path' = <<>>
  /\ copy_failed' = FALSE
  /\ wrote' = FALSE
  /\ result' = "idle"
  /\ exit_code' = -1
  /\ pre' = fs
  /\ UNCHANGED <<fs, source_file, target_file, ops>>
  /\ UNCHANGED <<parseVars, convVars>>

\* FileSafetyManager.create_backup called directly on the target.
CreateBackupCall ==
  /\ pc = "idle"
  /\ ops < MaxOps
  /\ HasFreeBackup(fs, target_file)
  /\ \E copy_ok \in BOOLEAN :
       fs' = create_backup(fs, target_file, copy_ok).fs
  /\ ops' = ops + 1
  /\ pre' = fs
  /\ UNCHANGED <<pc, entry, cfg, source_file, target_file, direction, reason,
                 prompted, response, backup_path, copy_failed, wrote,
                 result, exit_code>>
  /\ UNCHANGED <<parseVars, convVars>>

SafetyNext ==
  \/ MainStart
  \/ ApiStart
  \/ ConvertEnter
  \/ PromptAnswer
  \/ PromptEOF
  \/ GateBackup
  \/ TranslateWrite
  \/ TranslateRaise
  \/ ProcessEnd
  \/ CreateBackupCall

vars == <<safetyVars, parseVars, convVars>>

\* ------------------------------------------------------- data classes
\* FormatMetadata(): every collection empty, both strings empty.
\* heading_levels and styles are dicts, kept as sequences of <<key, value>>
\* in insertion order.
FormatMetadataNew ==
  [bold_ranges |-> <<>>, italic_ranges |-> <<>>, heading_levels |-> <<>>,
   lists |-> <<>>, tables |-> <<>>, hyperlinks |-> <<>>, images |-> <<>>,
   styles |-> <<>>, file_hash |-> <<>>, conversion_timestamp |-> <<>>]

\* ConversionConfig(): the fields the model follows
ConversionConfigDefault ==
  [use_builtin_styles |-> TRUE, table_style |-> "Table Grid",
   font_name |-> "Calibri"]

\* No record has been extracted in this run.
NoRecord == [extracted |-> FALSE, fields |-> {}, values |-> <<>>]

\* The converters' variables while the file-safety layer is exercised.
ConvIdle ==
  /\ markup = <<>>
  /\ config = ConversionConfigDefault
  /\ loaded_config = ConversionConfigDefault
  /\ record = NoRecord
  /\ document = [paragraphs |-> <<>>, tables |-> <<>>]
  /\ metadata = FormatMetadataNew
  /\ current_line = 0
  /\ markdown_content = <<>>
  /\ full_content = <<>>
  /\ wpc = "idle"
  /\ conversions = 0

\* The parser's variables while the file-safety layer is exercised.
ParseIdle ==
  /\ content = <<>>
  /\ lines = <<>>
  /\ line_num = 0
  /\ in_code_block = FALSE
  /\ code_block_content = <<>>
  /\ doc = <<>>
  /\ ppc = "idle"

Init == SafetyInit /\ ParseIdle /\ ConvIdle

Next == SafetyNext

Spec == Init /\ [][Next]_vars

\* ==================================================== markup parser
\* A line is a sequence of one-character strings.
RECURSIVE Rep(_, _)
Rep(c, n) == IF n <= 0 THEN <<>> ELSE <<c>> \o Rep(c, n - 1)

StartsWith(s, prefix) ==
  Len(s) >= Len(prefix) /\ SubSeq(s, 1, Len(prefix)) = prefix

\* Python's "sub in s"
Contains(s, sub) ==
  \E i \in 1..(Len(s) - Len(sub) + 1) : SubSeq(s, i, i + Len(sub) - 1) = sub

AllChars(s, c) == \A i \in 1..Len(s) : s[i] = c

\* str.split(sep) for a one-character separator
RECURSIVE SplitOn(_, _)
SplitOn(s, c) ==
  IF \A i \in 1..Len(s) : s[i] # c THEN <<s>>
  ELSE LET i == CHOOSE k \in 1..Len(s) :
                  s[k] = c /\ \A j \in 1..(k - 1) : s[j] # c
       IN  <<SubSeq(s, 1, i - 1)>> \o SplitOn(SubSeq(s, i + 1, Len(s)), c)

\* str.lstrip('#')
RECURSIVE LStripChar(_, _)
LStripChar(s, c) ==
  IF s # <<>> /\ s[1] = c THEN LStripChar(Tail(s), c) ELSE s

\* '\n'.join(parts)
RECURSIVE JoinLines(_)
JoinLines(parts) ==
  IF parts = <<>> THEN <<>>
  ELSE IF Len(parts) = 1 THEN parts[1]
  ELSE parts[1] \o <<"\n">> \o JoinLines(Tail(parts))

IsDigit(c) == c \in {"0", "1", "2", "3", "4", "5", "6", "7", "8", "9"}

\* Number of leading digits of s
RECURSIVE LeadingDigits(_)
LeadingDigits(s) ==
  IF s # <<>> /\ IsDigit(s[1]) THEN 1 + LeadingDigits(Tail(s)) ELSE 0

\* re.match(r'^\s*\d+\.', line)
MatchesNumbered(line) ==
  LET t == LStrip(line)
      d == LeadingDigits(t)
  IN  d >= 1 /\ Len(t) > d /\ t[d + 1] = "."

\* re.sub(r'^\s*\d+\.\s*', '', line)
StripNumberMarker(line) ==
  LET t == LStrip(line)
      d == LeadingDigits(t)
  IN  LStrip(SubSeq(t, d + 2, Len(t)))

\* Thresholds of the divider heuristics
RuleMinLen == 10

HeaderBoxMinLen == 20

\* The box-drawing horizontal character, as one token
BoxChar == "U+2500"

\* The backquote of the code fence, as one token
FenceChar == "U+0060"

is_horizontal_rule(line) ==
  LET stripped == Strip(line)
  IN  IF stripped = <<>> THEN FALSE
      ELSE IF stripped \in { <<"-", "-", "-">>, <<"*", "*", "*">>,
                             <<"_", "_", "_">> } THEN TRUE
      ELSE IF Len(stripped) >= RuleMinLen
           THEN AllChars(stripped, "-") \/ AllChars(stripped, "=")
                  \/ AllChars(stripped, BoxChar)
           ELSE FALSE

\* ls: the list of lines; n: the index (from 0) of line in ls
is_header_box_divider(line, ls, n) ==
  LET stripped == Strip(line)
  IN  IF Len(stripped) >= HeaderBoxMinLen /\ AllChars(stripped, "=")
      THEN IF n + 2 < Len(ls)
           THEN LET text_line == Strip(ls[n + 2])
                    closing_line == Strip(ls[n + 3])
                IN  /\ text_line # <<>>
                    /\ ~(\A i \in 1..Len(text_line) :
                           IsSpace(text_line[i])
                             \/ text_line[i] \in {"=", "-", "_"})
                    /\ Len(closing_line) >= HeaderBoxMinLen
                    /\ AllChars(closing_line, "=")
           ELSE FALSE
      ELSE FALSE

\* _extract_header_box_text: the text, and the list with the two lines blanked
extract_header_box_text(ls, n) ==
  IF n + 2 < Len(ls)
  THEN [text |-> Strip(ls[n + 2]),
        lines |-> [ls EXCEPT ![n + 2] = <<>>, ![n + 3] = <<>>],
        found |-> TRUE]
  ELSE [text |-> <<>>, lines |-> ls, found |-> FALSE]

\* One element added to the document.
Elem(kind, level, text, rows) ==
  [kind |-> kind, level |-> level, text |-> text, rows |-> rows]

IsPipeLine(line) == Contains(line, <<"|">>) /\ StartsWith(Strip(line), <<"|">>)

\* The lines of ls after index n (from 0) that continue the table
RECURSIVE CollectTableLines(_, _)
CollectTableLines(ls, n) ==
  IF n + 1 < Len(ls) /\ IsPipeLine(ls[n + 2])
  THEN <<ls[n + 2]>> \o CollectTableLines(ls, n + 1)
  ELSE <<>>

\* cells = [cell.strip() for cell in line.split('|')[1:-1]]
RowCells(line) ==
  LET parts == SplitOn(line, "|")
      inner == IF Len(parts) >= 2 THEN SubSeq(parts, 2, Len(parts) - 1)
               ELSE <<>>
  IN  [i \in 1..Len(inner) |-> Strip(inner[i])]

\* The rows of _add_markdown_table: separator lines and empty rows skipped
RECURSIVE TableRows(_)
TableRows(table_lines) ==
  IF table_lines = <<>> THEN <<>>
  ELSE LET line == table_lines[1]
           rest == TableRows(Tail(table_lines))
       IN  IF Contains(line, <<"-", "-", "-">>) THEN rest
           ELSE IF RowCells(line) # <<>> THEN <<RowCells(line)>> \o rest
           ELSE rest

\* The grid of doc.add_table(rows=len(rows), cols=len(rows[0])) once populated:
\* cells past a row's end stay empty, cells past the column count are dropped.
TableGrid(rows) ==
  LET cols == Len(rows[1])
  IN  [r \in 1..Len(rows) |->
        [c \in 1..cols |-> IF c <= Len(rows[r]) THEN rows[r][c] ELSE <<>>]]

\* _add_markdown_table: the elements it adds
add_markdown_table(table_lines) ==
  LET rows == TableRows(table_lines)
  IN  IF rows = <<>> THEN <<>>
      ELSE <<Elem("table", 0, <<>>, TableGrid(rows))>>

\* Highest level doc.add_heading accepts (python-docx raises above it)
MaxHeadingLevel == 9

\* ---- _apply_inline_formatting
\* text.find(sub, from): the least index (from 1) >= from where sub starts,
\* 0 when there is none
FindSub(text, sub, from) ==
  LET hits == { j \in from..(Len(text) - Len(sub) + 1) :
                  j >= 1 /\ SubSeq(text, j, j + Len(sub) - 1) = sub }
  IN  IF hits = {} THEN 0 ELSE CHOOSE j \in hits : \A k \in hits : j <= k

StartsAt(text, sub, i) ==
  i + Len(sub) - 1 <= Len(text) /\ SubSeq(text, i, i + Len(sub) - 1) = sub

NoMatch == [ok |-> FALSE, alt |-> 0, first |-> 0, last |-> 0, group |-> <<>>]

\* The alternatives of the pattern at index i, in the pattern's order.
\* Delimited: open (.+?) close, the lazy group at least one character.
\* Link: \[(.+?)\]\((.+?)\), group is group 5, the link text.
MatchAt(text, i) ==
  LET Delimited(open, close, alt) ==
        LET j == IF StartsAt(text, open, i)
                 THEN FindSub(text, close, i + Len(open) + 1) ELSE 0
        IN  IF j = 0 THEN NoMatch
            ELSE [ok |-> TRUE, alt |-> alt, first |-> i,
                  last |-> j + Len(close) - 1,
                  group |-> SubSeq(text, i + Len(open), j - 1)]
      mids == { j \in (i + 2)..Len(text) :
                  StartsAt(text, <<"]", "(">>, j)
                    /\ FindSub(text, <<")">>, j + 3) # 0 }
      Link ==
        IF ~StartsAt(text, <<"[">>, i) \/ mids = {} THEN NoMatch
        ELSE LET j == CHOOSE x \in mids : \A y \in mids : x <= y
             IN  [ok |-> TRUE, alt |-> 5, first |-> i,
                  last |-> FindSub(text, <<")">>, j + 3),
                  group |-> SubSeq(text, i + 1, j - 1)]
      a1 == Delimited(<<"*", "*", "*">>, <<"*", "*", "*">>, 1)
      a2 == Delimited(<<"*", "*">>, <<"*", "*">>, 2)
      a3 == Delimited(<<"*">>, <<"*">>, 3)
      a4 == Delimited(<<FenceChar>>, <<FenceChar>>, 4)
  IN  IF a1.ok THEN a1 ELSE IF a2.ok THEN a2 ELSE IF a3.ok THEN a3
      ELSE IF a4.ok THEN a4 ELSE Link

\* re.finditer's next match at or after index i
RECURSIVE NextMatch(_, _)
NextMatch(text, i) ==
  IF i > Len(text) THEN NoMatch
  ELSE IF MatchAt(text, i).ok THEN MatchAt(text, i)
  ELSE NextMatch(text, i + 1)

EndsWith(s, suffix) ==
  Len(s) >= Len(suffix) /\ SubSeq(s, Len(s) - Len(suffix) + 1, Len(s)) = suffix

\* A run added to a paragraph of the output document
OutRun(text, bold, italic, kind) ==
  [text |-> text, bold |-> bold, italic |-> italic, kind |-> kind]

\* The run added for one match: the branch is chosen by the matched text, the
\* run's text is the group of that branch (None, no text, when the match came
\* from another alternative).
FormattedRun(text, mt) ==
  LET full_match == SubSeq(text, mt.first, mt.last)
      g(alt) == IF mt.alt = alt THEN mt.group ELSE <<>>
  IN  IF StartsWith(full_match, <<"*", "*", "*">>)
           /\ EndsWith(full_match, <<"*", "*", "*">>)
      THEN <<OutRun(g(1), TRUE, TRUE, "text")>>
      ELSE IF StartsWith(full_match, <<"*", "*">>)
                /\ EndsWith(full_match, <<"*", "*">>)
      THEN <<OutRun(g(2), TRUE, FALSE, "text")>>
      ELSE IF StartsWith(full_match, <<"*">>) /\ EndsWith(full_match, <<"*">>)
      THEN <<OutRun(g(3), FALSE, TRUE, "text")>>
      ELSE IF StartsWith(full_match, <<FenceChar>>)
                /\ EndsWith(full_match, <<FenceChar>>)
      THEN <<OutRun(g(4), FALSE, FALSE, "code")>>
      ELSE IF Contains(full_match, <<"[">>)
                /\ Contains(full_match, <<"]", "(">>)
      THEN <<OutRun(g(5), FALSE, FALSE, "link")>>
      ELSE <<>>

\* The runs _apply_inline_formatting adds for text, from index current_pos on
RECURSIVE apply_inline_formatting(_, _)
apply_inline_formatting(text, current_pos) ==
  LET mt == NextMatch(text, current_pos)
  IN  IF ~mt.ok
      THEN IF current_pos <= Len(text)
           THEN <<OutRun(SubSeq(text, current_pos, Len(text)), FALSE, FALSE,
                         "text")>>
           ELSE <<>>
      ELSE (IF mt.first > current_pos
            THEN <<OutRun(SubSeq(text, current_pos, mt.first - 1), FALSE,
                          FALSE, "text")>>
            ELSE <<>>)
           \o FormattedRun(text, mt)
           \o apply_inline_formatting(text, mt.last + 1)

\* The state of the loop of _build_document
LoopState(d, ls, icb, cbc, err) ==
  [doc |-> d, lines |-> ls, in_code_block |-> icb, code_block_content |-> cbc,
   error |-> err]

\* Mutant: the test of in_code_block is missing, a line that is no fence
\* becomes a paragraph.
build_document_step_unbuffered(conf, d, ls, n, icb, cbc) ==
  LET line == RStrip(ls[n + 1])
  IN  IF StartsWith(line, <<FenceChar, FenceChar, FenceChar>>)
      THEN IF icb
           THEN LoopState(Append(d, Elem("code", 0, JoinLines(cbc), <<>>)), ls,
                          FALSE, <<>>, FALSE)
           ELSE LoopState(d, ls, TRUE, cbc, FALSE)
      ELSE LoopState(Append(d, Elem("para", 0, line, <<>>)), ls, icb, cbc,
                     FALSE)

\* One iteration of "for line_num, line in enumerate(lines)" at index n.
build_document_step(conf, d, ls, n, icb, cbc) ==
  LET line == RStrip(ls[n + 1])
  IN
  IF StartsWith(line, <<FenceChar, FenceChar, FenceChar>>)
  THEN IF icb
       THEN LoopState(Append(d, Elem("code", 0, JoinLines(cbc), <<>>)), ls,
                      FALSE, <<>>, FALSE)
       ELSE LoopState(d, ls, TRUE, cbc, FALSE)
  ELSE IF icb
  THEN LoopState(d, ls, icb, Append(cbc, line), FALSE)
  ELSE IF Strip(line) = <<>>
  THEN LoopState(Append(d, Elem("empty", 0, <<>>, <<>>)), ls, icb, cbc, FALSE)
  ELSE IF is_horizontal_rule(line)
  THEN LoopState(Append(d, Elem("rule", 0, <<>>, <<>>)), ls, icb, cbc, FALSE)
  ELSE
  LET box == is_header_box_divider(line, ls, n)
      ex == IF box THEN extract_header_box_text(ls, n)
            ELSE [text |-> <<>>, lines |-> ls, found |-> FALSE]
  IN
  IF box /\ ex.found /\ ex.text # <<>>
  THEN LoopState(Append(d, Elem("headerbox", 0, ex.text, <<>>)), ex.lines,
                 icb, cbc, FALSE)
  ELSE
  LET ls2 == ex.lines IN
  IF StartsWith(line, <<"#">>)
  THEN LET level == Len(line) - Len(LStripChar(line, "#"))
           heading_text == Strip(LStripChar(line, "#"))
       IN  IF conf.use_builtin_styles /\ level > MaxHeadingLevel
           THEN LoopState(d, ls2, icb, cbc, TRUE)
           ELSE LoopState(Append(d, Elem(IF conf.use_builtin_styles
                                         THEN "heading" ELSE "custom_heading",
                                         level, heading_text, <<>>)),
                          ls2, icb, cbc, FALSE)
  ELSE IF \E m \in {"-", "*", "+"} : StartsWith(Strip(line), <<m>>)
  THEN LoopState(Append(d, Elem("bullet", 0, Strip(Tail(Strip(line))), <<>>)),
                 ls2, icb, cbc, FALSE)
  ELSE IF MatchesNumbered(line)
  THEN LoopState(Append(d, Elem("number", 0, StripNumberMarker(line), <<>>)),
                 ls2, icb, cbc, FALSE)
  ELSE IF IsPipeLine(line)
  THEN LET table_lines == <<line>> \o CollectTableLines(ls2, n)
       IN  IF Len(table_lines) >= 2
           THEN LoopState(d \o add_markdown_table(table_lines), ls2, icb, cbc,
                          FALSE)
           ELSE LoopState(d, ls2, icb, cbc, FALSE)
  ELSE IF StartsWith(Strip(line), <<">">>)
  THEN LoopState(Append(d, Elem("quote", 0, Strip(Tail(Strip(line))), <<>>)),
                 ls2, icb, cbc, FALSE)
  ELSE LoopState(Append(d, Elem("para", 0, line,
                                apply_inline_formatting(line, 1))),
                 ls2, icb, cbc, FALSE)

\* ---- the markup lines of the modelled documents
EqLine == Rep("=", HeaderBoxMinLen)

TextLine == <<"T">>

RowAB == <<"|", " ", "A", " ", "|", " ", "B", " ", "|">>

RowSep == <<"|", " ", "-", "-", "-", " ", "|", " ", "-", "-", "-", " ", "|">>

Row12 == <<"|", " ", "1", " ", "|", " ", "2", " ", "|">>

FenceLine == <<FenceChar, FenceChar, FenceChar>>

BlankLine == <<>>

HeadingLine == <<"#", "#", " ", "H">>

BulletLine == <<"-", " ", "x">>

NumberLine == <<"1", ".", " ", "x">>

LineSet ==
  { EqLine, TextLine, RowAB, RowSep, Row12, FenceLine, BlankLine, HeadingLine,
    BulletLine, NumberLine }

Documents == UNION { [1..n -> LineSet] : n \in 1..MaxLines }

\* The file-safety variables while the parser is exercised.
SafetyIdle ==
  /\ source_file = <<"a", "md">>
  /\ target_file = <<"a", "docx">>
  /\ fs = [p \in FilesOf(<<"a", "md">>, <<"a", "docx">>) |->
             IF p = <<"a", "md">> THEN 1 ELSE 0]
  /\ pc = "idle"
  /\ NoRun
  /\ pre = fs
  /\ ops = 0

ParseInit ==
  /\ content \in Documents
  /\ lines = content
  /\ line_num = 0
  /\ in_code_block = FALSE
  /\ code_block_content = <<>>
  /\ doc = <<>>
  /\ ppc = "loop"

\* One iteration of the for loop of _build_document.
BuildStep ==
  /\ ppc = "loop"
  /\ line_num < Len(lines)
  /\ LET r == build_document_step(config, doc, lines, line_num,
                                  in_code_block, code_block_content)
     IN  /\ doc' = r.doc
         /\ lines' = r.lines
         /\ in_code_block' = r.in_code_block
         /\ code_block_content' = r.code_block_content
         /\ ppc' = IF r.error THEN "error" ELSE "loop"
  /\ line_num' = line_num + 1
  /\ UNCHANGED <<content, safetyVars, convVars>>

\* The loop has ended: doc.save(docx_path) and return True.
BuildDone ==
  /\ ppc = "loop"
  /\ line_num = Len(lines)
  /\ ppc' = "done"
  /\ UNCHANGED <<content, lines, line_num, in_code_block, code_block_content,
                 doc, safetyVars, convVars>>

ParseNext ==
  \/ BuildStep
  \/ BuildDone

InitParse == SafetyIdle /\ ParseInit /\ ConvIdle

SpecParse == InitParse /\ [][ParseNext]_vars

\* ---- markup made of code fences: a bare fence, a fence with a language, an
\* indented fence, a line with trailing blanks, a text line, a heading, a
\* blank line
InitFence ==
  /\ SafetyIdle
  /\ ConvIdle
  /\ LET fence_lines ==
           { FenceLine, FenceLine \o <<"p", "y">>, <<" ">> \o FenceLine,
             <<"x", " ", " ">>, TextLine, HeadingLine, BlankLine }
     IN  content \in UNION { [1..n -> fence_lines] : n \in 1..MaxLines }
  /\ lines = content
  /\ line_num = 0
  /\ in_code_block = FALSE
  /\ code_block_content = <<>>
  /\ doc = <<>>
  /\ ppc = "loop"

SpecFence == InitFence /\ [][ParseNext]_vars

\* ============================================ WordToMarkdownConverter
\* A run of a paragraph: its text and the attributes _process_runs reads.
\* hyperlink: run.element.xpath('.//w:hyperlink') is not empty.
Run(text, bold, italic, underline, strike, vert) ==
  [text |-> text, bold |-> bold, italic |-> italic, underline |-> underline,
   strike |-> strike, superscript |-> (vert = "sup"),
   subscript |-> (vert = "sub"), hyperlink |-> FALSE]

\* A paragraph: style.name as a sequence of words, its runs and its alignment
Paragraph(style, runs, alignment) ==
  [style |-> style, runs |-> runs, alignment |-> alignment]

\* Concatenation of a sequence of sequences
RECURSIVE Flat(_)
Flat(ss) == IF ss = <<>> THEN <<>> ELSE ss[1] \o Flat(Tail(ss))

\* sep.join(parts)
RECURSIVE JoinWith(_, _)
JoinWith(parts, sep) ==
  IF parts = <<>> THEN <<>>
  ELSE IF Len(parts) = 1 THEN parts[1]
  ELSE parts[1] \o sep \o JoinWith(Tail(parts), sep)

\* paragraph.text: the text of the runs, in order
ParagraphText(paragraph) ==
  Flat([i \in 1..Len(paragraph.runs) |-> paragraph.runs[i].text])

\* str(n) of a line index or a level, one token
DigitTok(n) ==
  IF n \in 0..9
  THEN <<"0", "1", "2", "3", "4", "5", "6", "7", "8", "9">>[n + 1]
  ELSE "9+"

\* d[k] = v for a dict kept as a sequence of <<key, value>>
DictSet(d, k, v) ==
  IF \E i \in 1..Len(d) : d[i][1] = k
  THEN [i \in 1..Len(d) |-> IF d[i][1] = k THEN <<k, v>> ELSE d[i]]
  ELSE Append(d, <<k, v>>)

\* The text replacing the run's text for a hyperlink run
HyperlinkText(text) ==
  <<"[">> \o text \o <<"]", "(", "#">>
    \o Lower([i \in 1..Len(text) |-> IF text[i] = " " THEN "-" ELSE text[i]])
    \o <<")">>

\* Mutant: the delimiters applied in the opposite order.
process_run_reversed(run) ==
  LET t1 == IF run.bold /\ run.italic
            THEN <<"*", "*", "*">> \o run.text \o <<"*", "*", "*">>
            ELSE IF run.bold THEN <<"*", "*">> \o run.text \o <<"*", "*">>
            ELSE IF run.italic THEN <<"*">> \o run.text \o <<"*">>
            ELSE run.text
      t2 == IF run.underline THEN <<"<u>">> \o t1 \o <<"</u>">> ELSE t1
      t3 == IF run.strike THEN <<"~", "~">> \o t2 \o <<"~", "~">> ELSE t2
      t4 == IF run.superscript THEN <<"<sup>">> \o t3 \o <<"</sup>">>
            ELSE IF run.subscript THEN <<"<sub>">> \o t3 \o <<"</sub>">>
            ELSE t3
  IN  IF run.hyperlink THEN HyperlinkText(run.text) ELSE t4

\* Mutant: a bold run gets two asterisks whether or not it is italic.
process_run_bold_first(run) ==
  LET t1 == IF run.superscript THEN <<"<sup>">> \o run.text \o <<"</sup>">>
            ELSE IF run.subscript THEN <<"<sub>">> \o run.text \o <<"</sub>">>
            ELSE run.text
      t2 == IF run.strike THEN <<"~", "~">> \o t1 \o <<"~", "~">> ELSE t1
      t3 == IF run.underline THEN <<"<u>">> \o t2 \o <<"</u>">> ELSE t2
  IN  IF run.bold THEN <<"*", "*">> \o t3 \o <<"*", "*">>
      ELSE IF run.italic THEN <<"*">> \o t3 \o <<"*">>
      ELSE t3

\* The body of the loop of _process_runs: the text added to result for run.
\* <sup>, </sup>, <sub>, </sub>, <u>, </u> are one token each.
process_run(run) ==
  LET t1 == IF run.superscript THEN <<"<sup>">> \o run.text \o <<"</sup>">>
            ELSE IF run.subscript THEN <<"<sub>">> \o run.text \o <<"</sub>">>
            ELSE run.text
      t2 == IF run.strike THEN <<"~", "~">> \o t1 \o <<"~", "~">> ELSE t1
      t3 == IF run.underline THEN <<"<u>">> \o t2 \o <<"</u>">> ELSE t2
      t4 == IF run.bold /\ run.italic
            THEN <<"*", "*", "*">> \o t3 \o <<"*", "*", "*">>
            ELSE IF run.bold THEN <<"*", "*">> \o t3 \o <<"*", "*">>
            ELSE IF run.italic THEN <<"*">> \o t3 \o <<"*">>
            ELSE t3
  IN  IF run.hyperlink THEN HyperlinkText(run.text) ELSE t4

\* _process_runs: the text, and the record with the hyperlinks appended
RECURSIVE process_runs(_, _, _, _)
process_runs(runs, md, cl, char_position) ==
  IF runs = <<>> THEN [text |-> <<>>, metadata |-> md]
  ELSE LET run == runs[1]
           end_pos == char_position + Len(run.text)
           md1 == IF run.hyperlink
                  THEN [md EXCEPT !.hyperlinks =
                          Append(@, [start |-> char_position, end |-> end_pos,
                                     line |-> cl])]
                  ELSE md
           rest == process_runs(Tail(runs), md1, cl, end_pos)
       IN  [text |-> process_run(run) \o rest.text, metadata |-> rest.metadata]

HasWord(name, w) == \E i \in 1..Len(name) : name[i] = w

\* int(re.findall(r'\d+', name)[0]) if there is a digit, else 1
StyleLevel(name) ==
  LET ds == { i \in 1..Len(name) : IsDigit(name[i]) }
  IN  IF ds = {} THEN 1
      ELSE LET i == CHOOSE x \in ds : \A y \in ds : x <= y
           IN  CHOOSE n \in 0..9 :
                 <<"0", "1", "2", "3", "4", "5", "6", "7", "8", "9">>[n + 1]
                   = name[i]

\* _process_paragraph at line cl: the markup line, and the record updated
process_paragraph(paragraph, md, cl) ==
  LET text == ParagraphText(paragraph)
      name == paragraph.style
  IN  IF Strip(text) = <<>> THEN [line |-> <<>>, metadata |-> md]
      ELSE IF name # <<>> /\ name[1] \in {"Heading", "Title"}
      THEN LET level == IF name = <<"Title">> THEN 1 ELSE StyleLevel(name)
           IN  [line |-> Rep("#", level) \o <<" ">> \o text,
                metadata |-> [md EXCEPT !.heading_levels =
                                DictSet(@, cl, level)]]
      ELSE IF \E w \in {"List", "Bullet", "Number"} : HasWord(name, w)
      THEN [line |-> (IF HasWord(name, "Bullet") \/ HasWord(name, "bullet")
                      THEN <<"-", " ">> ELSE <<"1", ".", " ">>) \o text,
            metadata |-> [md EXCEPT !.lists =
                            Append(@, [line |-> cl, style |-> name])]]
      ELSE LET r == process_runs(paragraph.runs, md, cl, 0)
           IN  [line |-> r.text,
                metadata |->
                  IF paragraph.alignment \in {"center", "right"}
                  THEN [r.metadata EXCEPT !.styles =
                          DictSet(@, <<DigitTok(cl)>>, paragraph.alignment)]
                  ELSE r.metadata]

\* _process_table at line cl. A table is the sequence of its rows, a row the
\* sequence of its cells' texts.
process_table(table, md, cl) ==
  LET table_data == [r \in 1..Len(table) |->
                       [c \in 1..Len(table[r]) |-> Strip(table[r][c])]]
      row(cells) == <<"|", " ">> \o JoinWith(cells, <<" ", "|", " ">>)
                      \o <<" ", "|">>
  IN  IF table = <<>> THEN [text |-> <<>>, metadata |-> md]
      ELSE IF table_data[1] = <<>> THEN [text |-> <<>>, metadata |-> md]
      ELSE
      LET header == table_data[1]
          markdown_table ==
            <<row(header)>>
              \o <<row([c \in 1..Len(header) |-> <<"-", "-", "-">>])>>
              \o [r \in 1..(Len(table_data) - 1) |-> row(table_data[r + 1])]
      IN  [text |-> JoinLines(markdown_table),
           metadata |-> [md EXCEPT !.tables =
                           Append(@, [line |-> cl, rows |-> Len(table_data),
                                      cols |-> Len(header),
                                      data |-> table_data])]]

\* The loops of _extract_content_and_metadata
RECURSIVE ExtractParagraphs(_, _, _, _)
ExtractParagraphs(paragraphs, md, cl, content_lines) ==
  IF paragraphs = <<>>
  THEN [content_lines |-> content_lines, metadata |-> md, current_line |-> cl]
  ELSE LET r == process_paragraph(paragraphs[1], md, cl)
       IN  IF Strip(r.line) # <<>>
           THEN ExtractParagraphs(Tail(paragraphs), r.metadata, cl + 1,
                                  Append(content_lines, r.line))
           ELSE ExtractParagraphs(Tail(paragraphs), r.metadata, cl,
                                  content_lines)

RECURSIVE ExtractTables(_, _, _, _)
ExtractTables(tables, md, cl, content_lines) ==
  IF tables = <<>>
  THEN [content_lines |-> content_lines, metadata |-> md, current_line |-> cl]
  ELSE LET r == process_table(tables[1], md, cl)
       IN  IF r.text # <<>>
           THEN ExtractTables(Tail(tables), r.metadata,
                              cl + Cardinality({ i \in 1..Len(r.text) :
                                                    r.text[i] = "\n" }),
                              Append(content_lines, r.text))
           ELSE ExtractTables(Tail(tables), r.metadata, cl, content_lines)

\* Mutant: the tables are processed before the paragraphs.
extract_content_and_metadata_tables_first(d, md) ==
  LET ts == ExtractTables(d.tables, md, 0, <<>>)
      ps == ExtractParagraphs(d.paragraphs, ts.metadata, ts.current_line,
                              ts.content_lines)
  IN  [text |-> JoinLines(ps.content_lines), metadata |-> ps.metadata,
       current_line |-> ps.current_line]

\* _extract_content_and_metadata: self.current_line restarts at 0,
\* self.metadata is the converter's
extract_content_and_metadata(d, md) ==
  LET ps == ExtractParagraphs(d.paragraphs, md, 0, <<>>)
      ts == ExtractTables(d.tables, ps.metadata, ps.current_line,
                          ps.content_lines)
  IN  [text |-> JoinLines(ts.content_lines), metadata |-> ts.metadata,
       current_line |-> ts.current_line]

\* ---- asdict(self.metadata): the items of the record as Python values,
\* tagged with their types as json_value tags them. The keys of
\* heading_levels are integers, those of styles strings.
asdict(md) ==
  LET Str(chars) == [str |-> chars]
      Num(n) == [int |-> n]
      Key(name) == [str |-> <<name>>]
      ListEntry(e) ==
        [dict |-> << <<Key("line"), Num(e.line)>>,
                     <<Key("style"), Str(e.style)>> >>]
      TableEntry(e) ==
        [dict |-> << <<Key("line"), Num(e.line)>>, <<Key("rows"), Num(e.rows)>>,
                     <<Key("cols"), Num(e.cols)>>,
                     <<Key("data"),
                       [list |-> [r \in 1..Len(e.data) |->
                          [list |-> [c \in 1..Len(e.data[r]) |->
                                      Str(e.data[r][c])]]]]>> >>]
      HyperlinkEntry(e) ==
        [dict |-> << <<Key("start"), Num(e.start)>>, <<Key("end"), Num(e.end)>>,
                     <<Key("line"), Num(e.line)>> >>]
  IN  << <<Key("bold_ranges"), [list |-> <<>>]>>,
         <<Key("italic_ranges"), [list |-> <<>>]>>,
         <<Key("heading_levels"),
           [dict |-> [i \in 1..Len(md.heading_levels) |->
                       <<Num(md.heading_levels[i][1]),
                         Num(md.heading_levels[i][2])>>]]>>,
         <<Key("lists"), [list |-> [i \in 1..Len(md.lists) |->
                                     ListEntry(md.lists[i])]]>>,
         <<Key("tables"), [list |-> [i \in 1..Len(md.tables) |->
                                      TableEntry(md.tables[i])]]>>,
         <<Key("hyperlinks"), [list |-> [i \in 1..Len(md.hyperlinks) |->
                                          HyperlinkEntry(md.hyperlinks[i])]]>>,
         <<Key("images"), [list |-> <<>>]>>,
         <<Key("styles"),
           [dict |-> [i \in 1..Len(md.styles) |->
                       <<Str(md.styles[i][1]), Str(<<md.styles[i][2]>>)>>]]>>,
         <<Key("file_hash"), Str(md.file_hash)>>,
         <<Key("conversion_timestamp"), Str(md.conversion_timestamp)>> >>

\* ---- json.dumps(asdict(self.metadata), indent=2), as a sequence of tokens
\* The record's fields in dataclass order, one per line; nested values are
\* kept on the field's line. A line feed in a string is escaped; the integer
\* keys of heading_levels are written as strings.
JsonDumps(md) ==
  LET Str(chars) ==
        <<"\"">> \o [i \in 1..Len(chars) |->
                       IF chars[i] = "\n" THEN "\\n" ELSE chars[i]] \o <<"\"">>
      List(items) == <<"[">> \o JoinWith(items, <<",", " ">>) \o <<"]">>
      Object(pairs) ==
        <<"{">> \o JoinWith([i \in 1..Len(pairs) |->
                               Str(<<pairs[i][1]>>) \o <<":", " ">>
                                 \o pairs[i][2]], <<",", " ">>) \o <<"}">>
      Num(n) == <<DigitTok(n)>>
      Levels(d) ==
        Object([i \in 1..Len(d) |-> <<DigitTok(d[i][1]), Num(d[i][2])>>])
      Styles(d) ==
        Object([i \in 1..Len(d) |->
                  <<d[i][1][1], Str(<<d[i][2]>>)>>])
      ListEntry(e) ==
        Object(<< <<"line", Num(e.line)>>, <<"style", Str(e.style)>> >>)
      TableEntry(e) ==
        Object(<< <<"line", Num(e.line)>>, <<"rows", Num(e.rows)>>,
                  <<"cols", Num(e.cols)>>,
                  <<"data", List([r \in 1..Len(e.data) |->
                              List([c \in 1..Len(e.data[r]) |->
                                Str(e.data[r][c])])])>> >>)
      HyperlinkEntry(e) ==
        Object(<< <<"start", Num(e.start)>>, <<"end", Num(e.end)>>,
                  <<"line", Num(e.line)>> >>)
      field(name, value) == <<" ", " ">> \o Str(<<name>>)
                              \o <<":", " ">> \o value
      fields ==
        << field("bold_ranges", List(<<>>)),
           field("italic_ranges", List(<<>>)),
           field("heading_levels", Levels(md.heading_levels)),
           field("lists", List([i \in 1..Len(md.lists) |->
                                 ListEntry(md.lists[i])])),
           field("tables", List([i \in 1..Len(md.tables) |->
                                  TableEntry(md.tables[i])])),
           field("hyperlinks", List([i \in 1..Len(md.hyperlinks) |->
                                      HyperlinkEntry(md.hyperlinks[i])])),
           field("images", List(<<>>)),
           field("styles", Styles(md.styles)),
           field("file_hash", Str(md.file_hash)),
           field("conversion_timestamp", Str(md.conversion_timestamp)) >>
  IN  <<"{", "\n">> \o JoinWith(fields, <<",", "\n">>) \o <<"\n", "}">>

\* '<!-- WORD_CONVERSION_METADATA': the marker's word is one token
MetadataOpen == <<"<", "!", "-", "-", " ", "WORD_CONVERSION_METADATA">>

MetadataClose == <<"-", "-", ">">>

\* The metadata block of full_content, after the markup and without the final
\* line feed: f"\n\n<!-- WORD_CONVERSION_METADATA\n{metadata_json}\n-->"
MetadataBlock(payload) ==
  <<"\n", "\n">> \o MetadataOpen \o <<"\n">> \o payload \o <<"\n">>
    \o MetadataClose

\* convert_docx_to_md past the safety check: the try block to the write.
\* file_hash is the digest of the source, conversion_timestamp the clock.
ConvertDocx ==
  /\ wpc = "ready"
  /\ LET r == extract_content_and_metadata(document, metadata)
         md == [r.metadata EXCEPT !.file_hash = <<"sha256", "(", "source", ")">>,
                                  !.conversion_timestamp = <<"now">>]
     IN  /\ metadata' = md
         /\ current_line' = r.current_line
         /\ markdown_content' = r.text
         /\ full_content' = r.text \o MetadataBlock(JsonDumps(md)) \o <<"\n">>
  /\ wpc' = "written"
  /\ conversions' = conversions + 1
  /\ UNCHANGED <<document, mdVars, parseVars, safetyVars>>

\* ---- one table per document
\* A converter just constructed, about to convert d
WordReady(d) ==
  /\ document = d
  /\ metadata = FormatMetadataNew
  /\ current_line = 0
  /\ markdown_content = <<>>
  /\ full_content = <<>>
  /\ wpc = "ready"
  /\ conversions = 0
  /\ markup = <<>>
  /\ config = ConversionConfigDefault
  /\ loaded_config = ConversionConfigDefault
  /\ record = NoRecord

\* One table of cell texts 'a', ' b' (padded) and 'a\nb' (a cell of two
\* paragraphs: cell.text joins them with a line feed)
InitTables ==
  /\ SafetyIdle
  /\ ParseIdle
  /\ LET cell_texts == { <<"a">>, <<" ", "b">>, <<"a", "\n", "b">> }
         tables == UNION { [1..r -> [1..c -> cell_texts]] :
                             r \in 0..MaxRows, c \in 0..MaxCols }
     IN  \E t \in tables : WordReady([paragraphs |-> <<>>, tables |-> <<t>>])

SpecTables == InitTables /\ [][ConvertDocx]_vars

\* ---- one plain paragraph of runs per document
NormalStyle == <<"Normal">>

\* One plain paragraph of runs of every combination of the attributes;
\* w:vertAlign holds one value, so a run is superscript, subscript or neither.
InitRuns ==
  /\ SafetyIdle
  /\ ParseIdle
  /\ LET word_runs == { Run(<<"x">>, b, i, u, s, v) :
                          b \in BOOLEAN, i \in BOOLEAN, u \in BOOLEAN,
                          s \in BOOLEAN, v \in {"none", "sup", "sub"} }
     IN  \E rs \in UNION { [1..n -> word_runs] : n \in 1..MaxRuns } :
           WordReady([paragraphs |-> <<Paragraph(NormalStyle, rs, "none")>>,
                      tables |-> <<>>])

SpecRuns == InitRuns /\ [][ConvertDocx]_vars

\* ======================================= MarkdownToWordConverter, the run
\* ---- yaml.safe_load on the front-matter block, a sequence of tokens.
\* A line 'key: value' is four tokens (key, ':', ' ', value), a line '- item'
\* three, a plain scalar one.
\* true and false are booleans, any other plain scalar is a string
YamlValue(tok) ==
  IF tok = "true" THEN TRUE ELSE IF tok = "false" THEN FALSE ELSE tok

\* The sequence without its empty members
RECURSIVE NonEmpty(_)
NonEmpty(ss) ==
  IF ss = <<>> THEN <<>>
  ELSE IF ss[1] = <<>> THEN NonEmpty(Tail(ss))
  ELSE <<ss[1]>> \o NonEmpty(Tail(ss))

\* kind: "none" (None), "map" (a dict, items in order), "list", "scalar",
\* "error" (yaml.YAMLError raised)
safe_load(yaml_content) ==
  LET ls == NonEmpty(SplitOn(yaml_content, "\n"))
      Special == {":", "[", "]", "{", "}", "-", " ", "\n"}
      IsEntry(l) ==
        Len(l) = 4 /\ l[1] \notin Special /\ l[2] = ":" /\ l[3] = " "
          /\ l[4] \notin Special
      IsItem(l) == Len(l) = 3 /\ l[1] = "-" /\ l[2] = " " /\ l[3] \notin Special
      IsScalar(l) == Len(l) = 1 /\ l[1] \notin Special
  IN  IF ls = <<>> THEN [kind |-> "none", items |-> <<>>]
      ELSE IF \A i \in 1..Len(ls) : IsEntry(ls[i])
      THEN [kind |-> "map",
            items |-> [i \in 1..Len(ls) |-> <<ls[i][1], YamlValue(ls[i][4])>>]]
      ELSE IF \A i \in 1..Len(ls) : IsItem(ls[i])
      THEN [kind |-> "list", items |-> [i \in 1..Len(ls) |-> ls[i][3]]]
      ELSE IF Len(ls) = 1 /\ IsScalar(ls[1])
      THEN [kind |-> "scalar", items |-> ls[1]]
      ELSE [kind |-> "error", items |-> <<>>]

FrontmatterFence == <<"-", "-", "-", "\n">>

\* _extract_frontmatter_config: None is kind "none"
extract_frontmatter_config(text) ==
  LET end_marker == FindSub(text, <<"\n">> \o FrontmatterFence, 5)
      loaded == safe_load(SubSeq(text, 5, end_marker - 1))
  IN  IF ~StartsWith(text, FrontmatterFence) \/ end_marker = 0
      THEN [kind |-> "none", items |-> <<>>]
      ELSE IF loaded.kind = "error" THEN [kind |-> "none", items |-> <<>>]
      ELSE loaded

\* _strip_frontmatter
strip_frontmatter(text) ==
  LET end_marker == FindSub(text, <<"\n">> \o FrontmatterFence, 5)
  IN  IF ~StartsWith(text, FrontmatterFence) \/ end_marker = 0 THEN text
      ELSE SubSeq(text, end_marker + 5, Len(text))

\* _update_config_from_dict on a dict: keys the configuration does not have
\* are skipped
RECURSIVE update_config_from_dict(_, _)
update_config_from_dict(conf, items) ==
  IF items = <<>> THEN conf
  ELSE update_config_from_dict(
         IF items[1][1] \in DOMAIN conf
         THEN [conf EXCEPT ![items[1][1]] = items[1][2]]
         ELSE conf,
         Tail(items))

\* ---- json.loads on the payload of the metadata block, a sequence of tokens
\* kind: "error" (json.JSONDecodeError raised), "object" (a dict, keys its
\* member names), "other" (a list, a string, a number, true, false, null).
\* instr: for each token, whether it lies inside a string (an odd number of
\* quotes comes before it); st: whether it is structure (neither blank, nor
\* quote, nor inside a string); depth: open brackets less close brackets among
\* the first i tokens. The text is one JSON value when quotes and brackets
\* balance and pair up, only brackets, ':', ',' and literals stand outside
\* strings, and nothing follows the value.
json_loads(toks) ==
  LET n == Len(toks)
      Blank(tok) == tok \in {" ", "\n"}
      Literal(tok) == IsDigit(tok) \/ tok \in {"true", "false", "null"}
      instr == [i \in 1..n |->
                  toks[i] # "\""
                    /\ Cardinality({ k \in 1..(i - 1) : toks[k] = "\"" }) % 2 = 1]
      st == [i \in 1..n |-> ~Blank(toks[i]) /\ toks[i] # "\"" /\ ~instr[i]]
      opens == { k \in 1..n : st[k] /\ toks[k] \in {"{", "["} }
      closes == { k \in 1..n : st[k] /\ toks[k] \in {"}", "]"} }
      depth == [i \in 1..n |->
                  Cardinality({ k \in opens : k <= i })
                    - Cardinality({ k \in closes : k <= i })]
      sigs == { i \in 1..n : ~Blank(toks[i]) }
      first == CHOOSE i \in sigs : \A k \in sigs : i <= k
      last == CHOOSE i \in sigs : \A k \in sigs : i >= k
      quotes == Cardinality({ k \in 1..n : toks[k] = "\"" })
      well_formed ==
        /\ sigs # {}
        /\ quotes % 2 = 0
        /\ depth[n] = 0
        /\ \A i \in 1..n :
             st[i]
             => /\ toks[i] \in {"{", "}", "[", "]", ":", ","} \/ Literal(toks[i])
                /\ depth[i] >= 0
                /\ toks[i] \in {":", ","} => depth[i] >= 1
                /\ toks[i] \in {"}", "]"}
                   => \E q \in 1..(i - 1) :
                        /\ st[q]
                        /\ toks[q] = (IF toks[i] = "}" THEN "{" ELSE "[")
                        /\ depth[q] = depth[i] + 1
                        /\ \A k \in (q + 1)..(i - 1) : depth[k] >= depth[q]
        /\ \A i \in sigs : (i # last /\ i # first) =>
             (depth[i] >= 1 \/ instr[i]
                \/ (toks[first] = "\"" /\ toks[i] # "\""))
        /\ toks[first] = "\"" => (quotes = 2 /\ toks[last] = "\"")
        /\ (first = last) => Literal(toks[first])
      top_keys == { toks[i] : i \in { k \in 2..(n - 2) :
                                        /\ instr[k]
                                        /\ toks[k - 1] = "\"" /\ toks[k + 1] = "\""
                                        /\ toks[k + 2] = ":"
                                        /\ depth[k] = 1 } }
  IN  IF ~well_formed THEN [kind |-> "error", keys |-> {}]
      ELSE IF toks[first] = "{" THEN [kind |-> "object", keys |-> top_keys]
      ELSE [kind |-> "other", keys |-> {}]

\* The value json.loads gives for the JSON value that starts at or after
\* toks[i] in a well-formed text, and the index after it. A value is tagged
\* with its Python type: [str |-> characters], [int |-> n], [lit |-> word],
\* [list |-> values], [dict |-> <<key, value>> pairs in order]; the keys of
\* an object are strings.
RECURSIVE json_value(_, _)
RECURSIVE json_members(_, _, _, _)
json_value(toks, i) ==
  LET s == CHOOSE k \in i..Len(toks) :
             toks[k] \notin {" ", "\n"}
               /\ \A q \in i..(k - 1) : toks[q] \in {" ", "\n"}
      e == CHOOSE k \in (s + 1)..Len(toks) :
             toks[k] = "\"" /\ \A q \in (s + 1)..(k - 1) : toks[q] # "\""
  IN  IF toks[s] = "\""
      THEN [v |-> [str |-> [k \in 1..(e - s - 1) |->
                             IF toks[s + k] = "\\n" THEN "\n" ELSE toks[s + k]]],
            next |-> e + 1]
      ELSE IF toks[s] = "[" THEN json_members(toks, s + 1, <<>>, FALSE)
      ELSE IF toks[s] = "{" THEN json_members(toks, s + 1, <<>>, TRUE)
      ELSE IF IsDigit(toks[s])
      THEN [v |-> [int |-> CHOOSE n \in 0..9 : DigitTok(n) = toks[s]],
            next |-> s + 1]
      ELSE [v |-> [lit |-> toks[s]], next |-> s + 1]

\* The members of the object (the elements of the list) that go on at
\* toks[i], after the ones in acc
json_members(toks, i, acc, is_object) ==
  LET s == CHOOSE k \in i..Len(toks) :
             toks[k] \notin {" ", "\n", ","}
               /\ \A q \in i..(k - 1) : toks[q] \in {" ", "\n", ","}
      first == json_value(toks, s)
      colon == CHOOSE k \in first.next..Len(toks) :
                 toks[k] = ":" /\ \A q \in first.next..(k - 1) : toks[q] # ":"
      second == json_value(toks, colon + 1)
  IN  IF toks[s] \in {"]", "}"}
      THEN [v |-> IF is_object THEN [dict |-> acc] ELSE [list |-> acc],
            next |-> s + 1]
      ELSE IF is_object
      THEN json_members(toks, second.next, Append(acc, <<first.v, second.v>>),
                      TRUE)
      ELSE json_members(toks, first.next, Append(acc, first.v), FALSE)

\* _extract_metadata: the record returned, or raised when FormatMetadata(**d)
\* raises TypeError (d is not a dict, or has a key that is not a field).
\* values are the items of d, which FormatMetadata keeps as they are.
extract_metadata(text) ==
  LET open == MetadataOpen \o <<"\n">>
      i == FindSub(text, open, 1)
      j == IF i = 0 THEN 0
           ELSE FindSub(text, <<"\n">> \o MetadataClose, i + Len(open))
      loaded == json_loads(SubSeq(text, i + Len(open), j - 1))
      empty == [raised |-> FALSE,
                record |-> [extracted |-> TRUE, fields |-> {}, values |-> <<>>]]
  IN  IF i = 0 \/ j = 0 THEN empty
      ELSE IF loaded.kind = "error" THEN empty
      ELSE IF loaded.kind = "object" /\ loaded.keys \subseteq DOMAIN FormatMetadataNew
      THEN [raised |-> FALSE,
            record |-> [extracted |-> TRUE, fields |-> loaded.keys,
                        values |-> json_value(SubSeq(text, i + Len(open),
                                                     j - 1), 1).v.dict]]
      ELSE [raised |-> TRUE, record |-> NoRecord]

\* _strip_metadata: re.sub of '\n\n<!-- WORD_CONVERSION_METADATA.*?-->\n?$'.
\* $ matches at the end and before a final line feed, so the close marker may
\* be followed by nothing, one line feed or two (the second one stays).
strip_metadata(text) ==
  LET prefix == <<"\n", "\n">> \o MetadataOpen
      i == FindSub(text, prefix, 1)
      n == Len(text)
      ends == { e \in {n - 2, n - 1, n} :
                  /\ e - 2 >= i + Len(prefix)
                  /\ SubSeq(text, e - 2, e) = MetadataClose
                  /\ \A k \in (e + 1)..n : text[k] = "\n" }
  IN  IF i = 0 \/ ends = {} THEN text
      ELSE LET e == CHOOSE x \in ends : \A y \in ends : x <= y
           IN  SubSeq(text, 1, i - 1)
                 \o (IF e = n - 2 THEN <<"\n">> ELSE <<>>)

\* convert_md_to_docx past the safety check, up to the loop of
\* _build_document: the front-matter, the metadata block, the new Document.
\* An exception (.items() of a front-matter that is not a dict,
\* FormatMetadata(**d) of a payload that is not a record) ends the run in
\* the except clause: the run returns False.
ConvertMdBegin ==
  /\ ppc = "ready"
  /\ LET fm == extract_frontmatter_config(markup)
         \* bool(frontmatter_config): None, False and empty values are false
         truthy == /\ fm.kind \in {"map", "list", "scalar"}
                   /\ fm.items # <<>>
                   /\ fm.kind = "scalar" => fm.items[1] # "false"
         conf1 == IF truthy /\ fm.kind = "map"
                  THEN update_config_from_dict(config, fm.items) ELSE config
         text1 == IF truthy THEN strip_frontmatter(markup) ELSE markup
         em == extract_metadata(text1)
     IN  IF truthy /\ fm.kind # "map"
         THEN /\ ppc' = "error"
              /\ UNCHANGED <<config, record, content, lines, line_num,
                             in_code_block, code_block_content, doc>>
         ELSE IF em.raised
         THEN /\ ppc' = "error"
              /\ config' = conf1
              /\ UNCHANGED <<record, content, lines, line_num, in_code_block,
                             code_block_content, doc>>
         ELSE /\ ppc' = "loop"
              /\ config' = conf1
              /\ record' = em.record
              /\ content' = SplitOn(strip_metadata(text1), "\n")
              /\ lines' = SplitOn(strip_metadata(text1), "\n")
              /\ line_num' = 0
              /\ in_code_block' = FALSE
              /\ code_block_content' = <<>>
              /\ doc' = <<>>
  /\ conversions' = conversions + 1
  /\ UNCHANGED <<markup, loaded_config, wordVars, safetyVars>>

\* ---- document -> markup -> document
HeadingStyle(n) == <<"Heading", " ", DigitTok(n)>>

ListBulletStyle == <<"List", " ", "Bullet">>

ListNumberStyle == <<"List", " ", "Number">>

PlainRun(text) == Run(text, FALSE, FALSE, FALSE, FALSE, "none")

\* Documents of headings of every level, list items and plain paragraphs whose
\* runs are plain, bold, italic or both; one plain paragraph is a code fence.
RoundDocuments ==
  LET Bold(text) == Run(text, TRUE, FALSE, FALSE, FALSE, "none")
      Italic(text) == Run(text, FALSE, TRUE, FALSE, FALSE, "none")
      BoldItalic(text) == Run(text, TRUE, TRUE, FALSE, FALSE, "none")
      run_lists ==
        { <<PlainRun(<<"x">>)>>, <<Bold(<<"x">>)>>, <<Italic(<<"x">>)>>,
          <<BoldItalic(<<"x">>)>>, <<PlainRun(<<"x">>), Bold(<<"y">>)>>,
          <<Bold(<<"x">>), PlainRun(<<"y">>)>>,
          <<PlainRun(<<FenceChar, FenceChar, FenceChar>>)>> }
      paragraphs ==
        { Paragraph(HeadingStyle(n), <<PlainRun(<<"T">>)>>, "none") :
            n \in 1..6 }
        \cup { Paragraph(st, <<PlainRun(<<"x">>)>>, "none") :
                 st \in {ListBulletStyle, ListNumberStyle} }
        \cup { Paragraph(NormalStyle, rs, "none") : rs \in run_lists }
  IN  { [paragraphs |-> ps, tables |-> <<>>] :
          ps \in UNION { [1..n -> paragraphs] : n \in 1..MaxParas } }

InitRound ==
  /\ SafetyIdle
  /\ ParseIdle
  /\ \E d \in RoundDocuments : WordReady(d)

\* The markup just written is converted back by a new
\* MarkdownToWordConverter(): f.read() of the file.
ReadBack ==
  /\ wpc = "written"
  /\ ppc = "idle"
  /\ markup' = full_content
  /\ config' = ConversionConfigDefault
  /\ ppc' = "ready"
  /\ UNCHANGED <<loaded_config, record, content, lines, line_num,
                 in_code_block, code_block_content, doc, wordVars, conversions,
                 safetyVars>>

RoundNext ==
  \/ ConvertDocx
  \/ ReadBack
  \/ ConvertMdBegin
  \/ BuildStep
  \/ BuildDone

SpecRound == InitRound /\ [][RoundNext]_vars

\* ---- several markup files converted by one MarkdownToWordConverter
\* load_config_file: any failure gives the defaults. A file is whether it
\* exists, its suffix and its text; json_items are the items of a JSON object
\* of one member, '{"key": value}', <<>> for the empty object.
load_config_file(file) ==
  LET toks == file.text
      json_items ==
        IF Len(toks) >= 7 /\ toks[5] = ":" /\ toks[6] = " "
        THEN << <<toks[3],
                  IF toks[7] = "\"" THEN toks[8] ELSE YamlValue(toks[7])>> >>
        ELSE <<>>
  IN  IF ~file.exists THEN ConversionConfigDefault
      ELSE IF file.suffix = "json"
      THEN IF json_loads(toks).kind = "object"
           THEN update_config_from_dict(ConversionConfigDefault, json_items)
           ELSE ConversionConfigDefault
      ELSE IF file.suffix \in {"yml", "yaml"}
      THEN IF safe_load(toks).kind = "map"
           THEN update_config_from_dict(ConversionConfigDefault,
                                        safe_load(toks).items)
           ELSE ConversionConfigDefault
      ELSE ConversionConfigDefault

\* No file; 'table_style: Light Grid'; '{"font_name": "Arial"}'; a YAML list;
\* a suffix that is neither JSON nor YAML
ConfigFiles ==
  { [exists |-> FALSE, suffix |-> "yaml", text |-> <<>>],
    [exists |-> TRUE, suffix |-> "yaml",
     text |-> <<"table_style", ":", " ", "Light Grid">>],
    [exists |-> TRUE, suffix |-> "json",
     text |-> <<"{", "\"", "font_name", "\"", ":", " ", "\"", "Arial", "\"",
                "}">>],
    [exists |-> TRUE, suffix |-> "yaml", text |-> <<"-", " ", "a">>],
    [exists |-> TRUE, suffix |-> "txt",
     text |-> <<"table_style", ":", " ", "Light Grid">>] }

\* ---- the markup files: front-matter, body, metadata block
Frontmatter(block) == FrontmatterFence \o block \o <<"\n">> \o FrontmatterFence

\* Blocks that are not a mapping: no closing '---' line; an unclosed flow
\* sequence (yaml.safe_load raises); a plain scalar (the string 'foo'); a
\* block sequence (the list ['a'])
MalformedFronts ==
  { FrontmatterFence \o <<"use_builtin_styles", ":", " ", "false", "\n">>,
    Frontmatter(<<"[">>),
    Frontmatter(<<"foo">>),
    Frontmatter(<<"-", " ", "a">>) }

\* No block, mappings of a known or an unknown key, and the malformed blocks
Fronts ==
  { <<>>,
    Frontmatter(<<"use_builtin_styles", ":", " ", "false">>),
    Frontmatter(<<"table_style", ":", " ", "Plain Table">>),
    Frontmatter(<<"color", ":", " ", "red">>) } \cup MalformedFronts

Bodies == { <<"#", " ", "H">>, <<"T">> }

\* No block, and blocks whose payload cannot be turned into a record: '{',
\* '[]', '{"x": 1}'
NoRecordFooters ==
  {<<>>} \cup { MetadataBlock(p) \o <<"\n">> :
                  p \in { <<"{">>, <<"[", "]">>,
                          <<"{", "\"", "x", "\"", ":", " ", "1", "}">> } }

\* The block of an empty record and what follows its close marker: nothing,
\* one line feed, a blank and a line feed, two line feeds, three line feeds
TrailerFooters ==
  { MetadataBlock(<<"{", "}">>) \o t :
      t \in { <<>>, <<"\n">>, <<" ", "\n">>, <<"\n", "\n">>,
              <<"\n", "\n", "\n">> } }

\* With them, the block of a record of one field: '{"lists": []}'
Footers ==
  { MetadataBlock(<<"{", "\"", "lists", "\"", ":", " ", "[", "]", "}">>)
      \o <<"\n">> }
  \cup NoRecordFooters \cup TrailerFooters

Markups == { f \o b \o m : f \in Fronts, b \in Bodies, m \in Footers }

\* main: the configuration is loaded, the converter constructed with it, and
\* the first file read
InitMd ==
  /\ SafetyIdle
  /\ \E file \in ConfigFiles, text \in Markups :
       /\ loaded_config = load_config_file(file)
       /\ config = load_config_file(file)
       /\ markup = text
  /\ record = NoRecord
  /\ content = <<>>
  /\ lines = <<>>
  /\ line_num = 0
  /\ in_code_block = FALSE
  /\ code_block_content = <<>>
  /\ doc = <<>>
  /\ ppc = "ready"
  /\ document = [paragraphs |-> <<>>, tables |-> <<>>]
  /\ metadata = FormatMetadataNew
  /\ current_line = 0
  /\ markdown_content = <<>>
  /\ full_content = <<>>
  /\ wpc = "idle"
  /\ conversions = 0

\* The same converter is handed another file: convert_md_to_docx is called
\* again, the locals of the last call are gone, self.config stays.
NextMarkup ==
  /\ ppc \in {"done", "error"}
  /\ conversions < MaxOps
  /\ markup' \in Markups
  /\ record' = NoRecord
  /\ content' = <<>>
  /\ lines' = <<>>
  /\ line_num' = 0
  /\ in_code_block' = FALSE
  /\ code_block_content' = <<>>
  /\ doc' = <<>>
  /\ ppc' = "ready"
  /\ UNCHANGED <<config, loaded_config, wordVars, conversions, safetyVars>>

MdNext ==
  \/ ConvertMdBegin
  \/ BuildStep
  \/ BuildDone
  \/ NextMarkup

SpecMd == InitMd /\ [][MdNext]_vars

\* ---- several documents converted by one WordToMarkdownConverter
RecordDocuments ==
  { [paragraphs |-> <<Paragraph(HeadingStyle(1), <<PlainRun(<<"T">>)>>, "none")>>,
     tables |-> <<>>],
    [paragraphs |-> <<Paragraph(ListBulletStyle, <<PlainRun(<<"x">>)>>, "none")>>,
     tables |-> <<>>],
    [paragraphs |-> <<Paragraph(NormalStyle, <<PlainRun(<<"x">>)>>, "none"),
                      Paragraph(ListNumberStyle, <<PlainRun(<<"x">>)>>, "none")>>,
     tables |-> <<>>],
    [paragraphs |-> <<Paragraph(NormalStyle, <<PlainRun(<<"x">>)>>, "none")>>,
     tables |-> <<>>],
    [paragraphs |-> <<>>, tables |-> << <<<<<<"a">>>>>> >>] }

InitRecord ==
  /\ SafetyIdle
  /\ ParseIdle
  /\ \E d \in RecordDocuments : WordReady(d)

\* The same converter is handed another document: convert_docx_to_md is called
\* again, Document(docx_path) is new, self.metadata is the one of __init__.
LoadDocument ==
  /\ wpc = "written"
  /\ conversions < MaxOps
  /\ document' \in RecordDocuments
  /\ markdown_content' = <<>>
  /\ full_content' = <<>>
  /\ wpc' = "ready"
  /\ UNCHANGED <<metadata, current_line, conversions, mdVars, parseVars,
                 safetyVars>>

RecordNext ==
  \/ ConvertDocx
  \/ LoadDocument

SpecRecord == InitRecord /\ [][RecordNext]_vars

\* ---- paragraphs and tables in any order
\* Document(docx_path) of a body of blocks, [kind |-> "p", p |-> paragraph] or
\* [kind |-> "tbl", t |-> table]: doc.paragraphs are the body's paragraphs in
\* order, doc.tables its tables in order.
DocumentOf(body) ==
  LET ps == SelectSeq(body, LAMBDA b : b.kind = "p")
      ts == SelectSeq(body, LAMBDA b : b.kind = "tbl")
  IN  [paragraphs |-> [i \in 1..Len(ps) |-> ps[i].p],
       tables |-> [i \in 1..Len(ts) |-> ts[i].t],
       body |-> body]

\* Paragraphs: blank, 'Heading 1', 'Heading 7', 'Title', 'Heading' (no
\* digit), a blank 'Heading 2', a list item, a centred paragraph, a link.
\* Tables: one
\* cell, two rows of one cell, no rows.
InitLines ==
  /\ SafetyIdle
  /\ ParseIdle
  /\ LET paragraphs ==
           { Paragraph(NormalStyle, <<PlainRun(<<" ">>)>>, "none"),
             Paragraph(HeadingStyle(1), <<PlainRun(<<"T">>)>>, "none"),
             Paragraph(HeadingStyle(7), <<PlainRun(<<"T">>)>>, "none"),
             Paragraph(<<"Title">>, <<PlainRun(<<"T">>)>>, "none"),
             Paragraph(<<"Heading">>, <<PlainRun(<<"T">>)>>, "none"),
             Paragraph(HeadingStyle(2), <<PlainRun(<<" ">>)>>, "none"),
             Paragraph(ListBulletStyle, <<PlainRun(<<"x">>)>>, "none"),
             Paragraph(NormalStyle, <<PlainRun(<<"x">>)>>, "center"),
             Paragraph(NormalStyle,
                       <<[PlainRun(<<"y">>) EXCEPT !.hyperlink = TRUE]>>,
                       "none") }
         tables == { <<<<<<"a">>>>>>, << <<<<"a">>>>, <<<<"b">>>> >>, <<>> }
         blocks == { [kind |-> "p", p |-> x] : x \in paragraphs }
                     \cup { [kind |-> "tbl", t |-> x] : x \in tables }
     IN  \E body \in UNION { [1..n -> blocks] : n \in 0..MaxBlocks } :
           WordReady(DocumentOf(body))

SpecLines == InitLines /\ [][ConvertDocx]_vars

\* ================================================================ claims
\* The gate of the current run has been evaluated on the files in pre.
GateEvaluated ==
  \/ pc \in {"prompt", "backup", "translate"}
  \/ pc = "done" /\ reason \notin {"none", "missing"}

\* The target exists, has the source's stem and another digest.
SameStemOtherDigest(f, s, t) ==
  /\ Exists(f, t)
  /\ Stem(s) = Stem(t)
  /\ calculate_file_hash(f, s) # calculate_file_hash(f, t)

\* The answers of Answers that are 'y' or 'yes' up to case and surrounding
\* whitespace, listed by hand.
YesAnswers == { <<"Y">>, <<" ", "Y", "e", "S", "\t">> }

\* C1: whenever the target exists with the source's stem and a different
\* digest, safe_write_check fails with the collision reason, whatever the four
\* policy flags are, and no confirmation prompt is issued.
C1_CollisionAlwaysRejects ==
  (GateEvaluated /\ Exists(pre, source_file)
     /\ SameStemOtherDigest(pre, source_file, target_file))
  => (pc = "done" /\ result = "false" /\ reason = "collision" /\ ~prompted)

C1_Witness ==
  /\ pc = "done"
  /\ reason = "collision"
  /\ ~cfg.require_confirmation
  /\ ~cfg.prevent_overwrite
  /\ ~cfg.check_hash
  /\ ~cfg.create_backup

\* C2: detect_conversion_collision(source, target) is true exactly when the
\* target exists, its stem equals the source's and its digest differs from the
\* source's; so it is false when the target is absent and false when both files
\* hash identically; the gate's collision verdict follows it and no file is
\* changed by the check.
C2_CollisionIff ==
  /\ \A s \in DOMAIN fs, t \in DOMAIN fs :
       /\ detect_conversion_collision(fs, s, t) <=> SameStemOtherDigest(fs, s, t)
       /\ ~Exists(fs, t) => ~detect_conversion_collision(fs, s, t)
       /\ calculate_file_hash(fs, s) = calculate_file_hash(fs, t)
            => ~detect_conversion_collision(fs, s, t)
  /\ (GateEvaluated /\ Exists(pre, source_file))
       => /\ (reason = "collision")
               <=> SameStemOtherDigest(pre, source_file, target_file)
          /\ reason = "collision" => fs = pre

C2_Witness ==
  /\ pc \in {"prompt", "backup", "translate"}
  /\ Exists(pre, target_file)
  /\ Stem(source_file) = Stem(target_file)
  /\ calculate_file_hash(pre, source_file) = calculate_file_hash(pre, target_file)

\* C3: no step changes or overwrites a backup file that exists, and a backup
\* file is only ever created under the first free name of the sequence
\* file.ext.backup, file.ext.backup.1, file.ext.backup.2, ... (every earlier
\* name exists already), holding a copy of file.ext.
C3_BackupsNeverOverwritten ==
  [][\A p \in {target_file} : \A k \in 0..MaxBackups :
       LET b == BackupName(p, k)
       IN  /\ Exists(fs, b) => fs'[b] = fs[b]
           /\ (~Exists(fs, b) /\ Exists(fs', b))
                => /\ \A j \in 0..(k - 1) : Exists(fs, BackupName(p, j))
                   /\ fs'[b] = fs[p]]_vars

C3_Witness ==
  \E p \in {target_file} :
    /\ Exists(fs, BackupName(p, 0))
    /\ Exists(fs, BackupName(p, 1))
    /\ fs[BackupName(p, 0)] # fs[BackupName(p, 1)]

\* C4: in both directions, a run rejected before translation (source missing,
\* collision, user cancelled) returns failure, leaves every file as it was
\* (the target included) and has created no backup.
C4_RejectedRunTouchesNothing ==
  (pc = "done" /\ reason \in {"missing", "collision", "cancelled"})
  => (result = "false" /\ fs = pre /\ backup_path = <<>> /\ ~wrote)

C4_Witness ==
  /\ pc = "done"
  /\ reason = "cancelled"
  /\ direction = "md2docx"
  /\ cfg.create_backup
  /\ Exists(fs, target_file)

\* C5: with no collision, safe_write_check prompts exactly when the target
\* exists and prevent_overwrite and require_confirmation are set; an answer
\* other than 'y' or 'yes' (case and surrounding whitespace ignored) makes the
\* gate fail with the user-cancelled reason.
C5_PromptIffAndCancel ==
  (GateEvaluated /\ Exists(pre, source_file) /\ reason # "collision")
  => /\ (pc = "prompt" \/ prompted)
          <=> (Exists(pre, target_file) /\ cfg.prevent_overwrite
                 /\ cfg.require_confirmation)
     /\ (prompted /\ response # EOFResponse /\ response \notin YesAnswers)
          => (pc = "done" /\ result = "false" /\ reason = "cancelled")

C5_Witness ==
  /\ pc = "done"
  /\ prompted
  /\ response = <<"y", " ", "e", "s">>
  /\ reason = "cancelled"

\* C6: when the target exists, create_backup is set and the copy fails,
\* safe_write_check still succeeds: the run goes on to the translation and the
\* write, and never ends with a gate failure.
C6_BackupFailureNotFatal ==
  copy_failed
  => /\ cfg.create_backup /\ Exists(pre, target_file) /\ backup_path = <<>>
     /\ pc \in {"translate", "done"}
     /\ pc = "done" => reason = "ok"

C6_Witness == copy_failed /\ pc = "done" /\ wrote /\ result = "true"

\* The operator answered yes at the prompt of this run.
AnsweredYes == prompted /\ response \in YesAnswers

\* A backup made in this run holds the content the target had before the run.
BackupHoldsPrior ==
  backup_path # <<>> /\ fs[backup_path] = pre[target_file]

\* C7 (as stated): whenever a run overwrites an existing target, the operator
\* answered yes at the prompt or a backup of the prior content was made earlier
\* in that run, for every policy.
C7_NoSilentOverwrite_Original ==
  (wrote /\ Exists(pre, target_file)) => (AnsweredYes \/ BackupHoldsPrior)

\* C7 (amended): whenever a run overwrites an existing target, the operator
\* answered yes earlier in the run if prevent_overwrite and
\* require_confirmation are set, and a backup holding the prior content was
\* made earlier in the run if create_backup is set and the copy did not fail.
C7_OverwriteGuardedByPolicy ==
  (wrote /\ Exists(pre, target_file))
  => /\ (cfg.prevent_overwrite /\ cfg.require_confirmation) => AnsweredYes
     /\ (cfg.create_backup /\ ~copy_failed) => BackupHoldsPrior

C7_Witness ==
  /\ wrote
  /\ Exists(pre, target_file)
  /\ AnsweredYes
  /\ BackupHoldsPrior
  /\ fs[target_file] # pre[target_file]

\* C8: when the prompt is required and the read of the answer fails (no
\* terminal), the run ends in an error: nothing is written, no backup is
\* made, the run does not return success and main exits with status 1.
C8_NoTerminalIsError ==
  response = EOFResponse
  => /\ pc = "done"
     /\ result = "exception"
     /\ ~wrote
     /\ fs = pre
     /\ backup_path = <<>>
     /\ entry = "main" => exit_code = 1

C8_Witness ==
  response = EOFResponse /\ entry = "main" /\ cfg.create_backup /\ exit_code = 1

\* The elements of d of the given kind, in order
RECURSIVE OfKind(_, _)
OfKind(d, kind) ==
  IF d = <<>> THEN <<>>
  ELSE IF d[1].kind = kind THEN <<d[1]>> \o OfKind(Tail(d), kind)
  ELSE OfKind(Tail(d), kind)

\* C9: markup made of a line of 20 or more '=', a non-divider text line and
\* another line of 20 or more '=' converts to exactly one bordered heading
\* paragraph holding the text: the three lines give no divider paragraph and
\* no separate text paragraph.
C9_HeaderBoxOneParagraph ==
  (ppc = "done" /\ content = <<EqLine, TextLine, EqLine>>)
  => doc = <<Elem("headerbox", 0, TextLine, <<>>)>>

\* The cells of the modelled table rows, listed by hand
CellsByHand(line) ==
  IF line = RowAB THEN << <<"A">>, <<"B">> >>
  ELSE IF line = Row12 THEN << <<"1">>, <<"2">> >>
  ELSE <<>>

\* content is a table block: a header row, the separator row, n data rows
IsTableBlock(c) ==
  /\ Len(c) >= 2
  /\ c[1] \in {RowAB, Row12}
  /\ c[2] = RowSep
  /\ \A i \in 3..Len(c) : c[i] \in {RowAB, Row12}

\* C10: a block of pipe-delimited lines (header row, separator row, n data
\* rows) adds exactly one table, of n + 1 rows and the header's column count,
\* with the cell text of the markup, and nothing else: the lines after the
\* first produce no further element.
C10_TableBlockOneTable ==
  (ppc = "done" /\ IsTableBlock(content))
  => /\ Len(doc) = 1
     /\ doc[1].kind = "table"
     /\ Len(doc[1].rows) = Len(content) - 1
     /\ doc[1].rows[1] = CellsByHand(content[1])
     /\ \A i \in 3..Len(content) : doc[1].rows[i - 1] = CellsByHand(content[i])

\* ---- the document-to-markup translator
\* '| c1 | ... | cc |' for the cells of one row
RowByHand(cells) ==
  <<"|">> \o Flat([c \in 1..Len(cells) |->
                     <<" ">> \o Strip(cells[c]) \o <<" ", "|">>])

\* C11: a table of r >= 1 rows and c >= 1 columns is emitted as exactly r+1
\* markup lines (first row, a separator of c '---' cells, the other rows in
\* order); a table of zero rows emits nothing and adds nothing to tables.
C11_TableEmittedAsRowsPlusOne ==
  (wpc = "written" /\ document.paragraphs = <<>> /\ Len(document.tables) = 1)
  => LET t == document.tables[1]
         r == Len(t)
         ls == SplitOn(markdown_content, "\n")
     IN  IF r = 0 THEN markdown_content = <<>> /\ metadata.tables = <<>>
         ELSE IF Len(t[1]) = 0 THEN TRUE
         ELSE /\ Len(ls) = r + 1
              /\ ls[1] = RowByHand(t[1])
              /\ ls[2] = RowByHand([c \in 1..Len(t[1]) |-> <<"-", "-", "-">>])
              /\ \A k \in 2..r : ls[k + 1] = RowByHand(t[k])

\* The document converted was one plain paragraph.
OnePlainParagraphWritten ==
  /\ wpc = "written"
  /\ Len(document.paragraphs) = 1
  /\ document.tables = <<>>
  /\ document.paragraphs[1].style = NormalStyle

\* The asterisks a run's attributes call for
Stars(run) ==
  IF run.bold /\ run.italic THEN 3 ELSE IF run.bold THEN 2
  ELSE IF run.italic THEN 1 ELSE 0

LeadingStars(s) == Len(s) - Len(LStripChar(s, "*"))

TrailingStars(s) ==
  LeadingStars([i \in 1..Len(s) |-> s[Len(s) + 1 - i]])

Wrap(on, open, text, close) == IF on THEN open \o text \o close ELSE text

VertOpen(run) == IF run.superscript THEN <<"<sup>">> ELSE <<"<sub>">>

VertClose(run) == IF run.superscript THEN <<"</sup>">> ELSE <<"</sub>">>

\* The delimiters nested as the specification orders them: superscript/subscript
\* outermost, then strikethrough, then underline, the asterisks innermost
ClaimedNesting(run) ==
  Wrap(run.superscript \/ run.subscript, VertOpen(run),
    Wrap(run.strike, <<"~", "~">>,
      Wrap(run.underline, <<"<u>">>,
        Wrap(Stars(run) > 0, Rep("*", Stars(run)), run.text,
             Rep("*", Stars(run))),
        <<"</u>">>),
      <<"~", "~">>),
    VertClose(run))

\* The opposite order: the asterisks outermost, then underline, then
\* strikethrough, superscript/subscript innermost
EmittedNesting(run) ==
  Wrap(Stars(run) > 0, Rep("*", Stars(run)),
    Wrap(run.underline, <<"<u>">>,
      Wrap(run.strike, <<"~", "~">>,
        Wrap(run.superscript \/ run.subscript, VertOpen(run), run.text,
             VertClose(run)),
        <<"~", "~">>),
      <<"</u>">>),
    Rep("*", Stars(run)))

RECURSIVE SourceOutline(_)
SourceOutline(ps) ==
  IF ps = <<>> THEN <<>>
  ELSE (IF ps[1].style[1] = "Heading"
        THEN << <<"heading", StyleLevel(ps[1].style)>> >>
        ELSE IF ps[1].style = ListBulletStyle THEN << <<"bullet", 0>> >>
        ELSE IF ps[1].style = ListNumberStyle THEN << <<"number", 0>> >>
        ELSE <<>>) \o SourceOutline(Tail(ps))

\* The same of the elements of a built document
RECURSIVE BuiltOutline(_)
BuiltOutline(d) ==
  IF d = <<>> THEN <<>>
  ELSE (IF d[1].kind \in {"heading", "bullet", "number"}
        THEN << <<d[1].kind, d[1].level>> >> ELSE <<>>)
       \o BuiltOutline(Tail(d))

\* a is b with members left out
RECURSIVE IsSubsequence(_, _)
IsSubsequence(a, b) ==
  IF a = <<>> THEN TRUE
  ELSE IF b = <<>> THEN FALSE
  ELSE IF a[1] = b[1] THEN IsSubsequence(Tail(a), Tail(b))
  ELSE IsSubsequence(a, Tail(b))

\* The conversion back of the markup written for document has ended.
RoundTripEnded == wpc = "written" /\ ppc \in {"done", "error"}

\* C14: after document -> markup -> document, every heading of the source
\* comes back as a heading of the same level and every list item as a list
\* item of the same kind, in the source's order.
C14_RoundTripKeepsOutline ==
  RoundTripEnded
  => /\ ppc = "done"
     /\ IsSubsequence(SourceOutline(document.paragraphs), BuiltOutline(doc))

\* The text of the runs of a built paragraph
BuiltText(e) == Flat([i \in 1..Len(e.rows) |-> e.rows[i].text])

\* C15: after document -> markup -> document, a document of plain paragraphs
\* whose runs carry only bold/italic combinations comes back as as many plain
\* paragraphs, each with the text of its source paragraph.
C15_RoundTripKeepsRunText ==
  (RoundTripEnded
     /\ \A k \in 1..Len(document.paragraphs) :
          document.paragraphs[k].style = NormalStyle)
  => /\ ppc = "done"
     /\ Len(doc) = Len(document.paragraphs)
     /\ \A k \in 1..Len(doc) :
          /\ doc[k].kind = "para"
          /\ BuiltText(doc[k]) = ParagraphText(document.paragraphs[k])

\* ---- metadata block, front-matter, configuration
\* A run of convert_md_to_docx has got past its preamble or has failed in it.
RunBegun == ppc \in {"loop", "done", "error"}

\* C16: when the metadata block is absent or its payload cannot be turned
\* into a record (invalid JSON, or JSON that is not an object of the record's
\* fields), the run goes on with an empty record and does not fail.
C16_UnusableMetadataGivesEmptyRecord ==
  (RunBegun /\ \E b \in Bodies, m \in NoRecordFooters : markup = b \o m)
  => /\ ppc # "error"
     /\ record = [extracted |-> TRUE, fields |-> {}, values |-> <<>>]

\* C17: a front-matter block that is unterminated, unparsable or not a
\* mapping is ignored: the run does not fail, the configuration is the one
\* the converter was built with, and the text is parsed with the block in it.
C17_MalformedFrontmatterIsIgnored ==
  (RunBegun /\ conversions = 1
     /\ \E f \in MalformedFronts, b \in Bodies : markup = f \o b)
  => /\ ppc # "error"
     /\ config = loaded_config
     /\ content = SplitOn(markup, "\n")

\* C18: a metadata block at the end of the text is removed before parsing
\* whatever white space follows its close marker: the document built has the
\* body's paragraph and after it at most empty ones.
C18_MetadataBlockRemovedBeforeParsing ==
  (ppc = "done"
     /\ \E b \in Bodies, m \in TrailerFooters : markup = b \o m)
  => \A k \in 2..Len(doc) : doc[k].text = <<>>

\* The overrides a front-matter block asks for, laid over conf
FrontOverrides(conf, f) ==
  IF f = Frontmatter(<<"use_builtin_styles", ":", " ", "false">>)
  THEN [conf EXCEPT !.use_builtin_styles = FALSE]
  ELSE IF f = Frontmatter(<<"table_style", ":", " ", "Plain Table">>)
  THEN [conf EXCEPT !.table_style = "Plain Table"]
  ELSE conf

\* C20: the configuration a run builds its document with is the defaults,
\* overlaid by the configuration file, overlaid by that run's own
\* front-matter, whatever the converter converted before.
C20_ConfigIsFileThenOwnFrontmatter ==
  ppc \in {"loop", "done"}
  => \E f \in Fronts, b \in Bodies, m \in Footers :
       /\ markup = f \o b \o m
       /\ config = FrontOverrides(loaded_config, f)

\* ---- the record of a document -> markup run
\* The record a converter just constructed would have collected from document
FreshRecord == extract_content_and_metadata(document, FormatMetadataNew).metadata

\* C19: the record a run serializes holds only entries of that run's own
\* document, also when the converter has converted other documents before.
C19_RecordHoldsOnlyOwnDocument ==
  wpc = "written"
  => /\ metadata.heading_levels = FreshRecord.heading_levels
     /\ metadata.lists = FreshRecord.lists
     /\ metadata.tables = FreshRecord.tables
     /\ metadata.hyperlinks = FreshRecord.hyperlinks
     /\ metadata.styles = FreshRecord.styles

\* ---- code fences
\* A step of the loop of _build_document: the line at line_num is consumed.
LineConsumed == ppc = "loop" /\ line_num' = line_num + 1

\* C21: only a line starting with the fence delimiter toggles the
\* in-code-block state; in that state any other line is appended unchanged to
\* the buffer and adds nothing to the document; a closing fence adds one code
\* paragraph, the buffered lines joined by line feeds, and empties the buffer.
C21_FenceTogglesAndBuffersVerbatim ==
  [][LineConsumed
     => LET raw == lines[line_num + 1]
            fence == StartsWith(raw, <<FenceChar, FenceChar, FenceChar>>)
        IN  /\ (in_code_block' # in_code_block) <=> fence
            /\ (in_code_block /\ ~fence)
               => /\ doc' = doc
                  /\ code_block_content' = Append(code_block_content, raw)
            /\ (in_code_block /\ fence)
               => /\ doc' = Append(doc, Elem("code", 0,
                                             JoinLines(code_block_content),
                                             <<>>))
                  /\ code_block_content' = <<>>]_vars

\* C27: from an opening fence that is never closed to the end of the markup
\* the document gets nothing, and the run ends in success.
C27_UnclosedFenceDropsBufferedLines ==
  [][(in_code_block /\ in_code_block')
     => (doc' = doc /\ ppc' \in {"loop", "done"})]_vars

\* The markup ended inside a code block with lines buffered.
C27_Witness == ppc = "done" /\ in_code_block /\ code_block_content # <<>>

\* ---- line indices, headings, tables after paragraphs
\* The markup line of a paragraph of the documents of SpecLines: none for a
\* blank one, level and text for a heading.
LineByHand(paragraph) ==
  LET text == ParagraphText(paragraph)
      name == paragraph.style
  IN  IF text = <<" ">> THEN <<>>
      ELSE IF name = <<"Title">> \/ name = <<"Heading">>
      THEN << <<"#", " ">> \o text >>
      ELSE IF name[1] = "Heading"
      THEN << Rep("#", StyleLevel(name)) \o <<" ">> \o text >>
      ELSE IF name = ListBulletStyle THEN << <<"-", " ">> \o text >>
      ELSE IF paragraph.runs[1].hyperlink
      THEN << <<"[">> \o text \o <<"]", "(", "#">> \o text \o <<")">> >>
      ELSE <<text>>

\* The markup lines of a table: first row, separator, other rows
TableByHand(t) ==
  IF t = <<>> THEN <<>>
  ELSE <<RowByHand(t[1])>>
         \o <<RowByHand([c \in 1..Len(t[1]) |-> <<"-", "-", "-">>])>>
         \o [k \in 1..(Len(t) - 1) |-> RowByHand(t[k + 1])]

\* The lines of the markup written
EmittedLines ==
  IF markdown_content = <<>> THEN <<>> ELSE SplitOn(markdown_content, "\n")

\* C22: every line index of the record is the index, from 0, of the first
\* markup line emitted for its element: a heading line for a key of
\* heading_levels, a list line for an entry of lists, the first row of the
\* table for an entry of tables.
C22_RecordLineIndicesAreEmittedLines ==
  wpc = "written"
  => /\ \A i \in 1..Len(metadata.heading_levels) :
          LET k == metadata.heading_levels[i][1]
          IN  k + 1 \in 1..Len(EmittedLines)
                /\ StartsWith(EmittedLines[k + 1], <<"#">>)
     /\ \A i \in 1..Len(metadata.lists) :
          LET k == metadata.lists[i].line
          IN  k + 1 \in 1..Len(EmittedLines)
                /\ StartsWith(EmittedLines[k + 1], <<"-", " ">>)
     /\ \A i \in 1..Len(metadata.styles) :
          \E k \in 0..9 :
            /\ metadata.styles[i][1] = <<DigitTok(k)>>
            /\ k + 1 \in 1..Len(EmittedLines)
            /\ EmittedLines[k + 1] = <<"x">>
     /\ \A i \in 1..Len(metadata.hyperlinks) :
          LET k == metadata.hyperlinks[i].line
          IN  k + 1 \in 1..Len(EmittedLines)
                /\ StartsWith(EmittedLines[k + 1], <<"[", "y", "]">>)
     /\ \A i \in 1..Len(metadata.tables) :
          LET k == metadata.tables[i].line
          IN  k + 1 \in 1..Len(EmittedLines)
                /\ EmittedLines[k + 1] = RowByHand(metadata.tables[i].data[1])
                /\ (k >= 1 => EmittedLines[k] # RowByHand(<< <<"-", "-", "-">> >>))

\* C23: a heading or title paragraph that is not blank is emitted as level
\* '#', a blank and its text, heading_levels holds that level for the line,
\* and the level is between 1 and 6.
C23_HeadingLineAndLevel ==
  wpc = "written"
  => LET heads == SelectSeq(document.paragraphs,
                            LAMBDA p : p.style[1] \in {"Heading", "Title"}
                                        /\ ParagraphText(p) # <<" ">>)
     IN  /\ Len(metadata.heading_levels) = Len(heads)
         /\ \A i \in 1..Len(heads) :
              LET k == metadata.heading_levels[i][1]
                  level == metadata.heading_levels[i][2]
              IN  /\ level \in 1..6
                  /\ k + 1 \in 1..Len(EmittedLines)
                  /\ EmittedLines[k + 1]
                       = Rep("#", level) \o <<" ">> \o ParagraphText(heads[i])

\* C26: the markup is the lines of the paragraphs in their order, then the
\* lines of the tables in their order with nothing between two tables,
\* wherever the tables stand among the paragraphs.
C26_TablesAfterParagraphs ==
  wpc = "written"
  => EmittedLines
       = Flat([i \in 1..Len(document.paragraphs) |->
                 LineByHand(document.paragraphs[i])])
         \o Flat([i \in 1..Len(document.tables) |->
                    TableByHand(document.tables[i])])

\* A table before a paragraph and a second table after it have been written.
C26_Witness ==
  /\ wpc = "written"
  /\ Len(document.body) = 3
  /\ document.body[1].kind = "tbl" /\ document.body[1].t # <<>>
  /\ document.body[2].kind = "p" /\ document.body[2].p.style = ListBulletStyle
  /\ document.body[3].kind = "tbl" /\ document.body[3].t # <<>>

\* ---- the metadata block read back
\* C24: when the markup written for a document is read back, the record
\* extracted has the keys and values of the record that was serialized, the
\* line keys of heading_levels and the digest of the source included, and
\* the text left when the block is stripped is the markup lines joined by
\* line feeds.
C24_MetadataRoundTrip ==
  (wpc = "written" /\ ppc \in {"loop", "done"})
  => /\ record.extracted
     /\ record.values = asdict(metadata)
     /\ strip_metadata(markup) = markdown_content
     /\ content = SplitOn(markdown_content, "\n")

\* ---- conversion run again
\* Source and target have the same stem, both exist and their bytes differ.
SameStemDiffer ==
  /\ Stem(source_file) = Stem(target_file)
  /\ Exists(fs, source_file) /\ Exists(fs, target_file)
  /\ fs[source_file] # fs[target_file]

\* A run has ended without writing the target.
RunEndedWithoutWrite == pc = "done" /\ ~wrote

\* C25: once a run has written a target with the source's stem and bytes
\* other than the source's, no later run of the conversion gets past
\* safe_write_check, whatever its SafetyConfig: each one ends with False and
\* the reason "collision", and source and target keep differing.
C25_ReconversionIsCollision ==
  []((pc = "done" /\ result = "true" /\ wrote /\ SameStemDiffer)
     => [](/\ pc \notin {"prompt", "backup", "translate"}
           /\ SameStemDiffer
           /\ RunEndedWithoutWrite
              => (reason = "collision" /\ result = "false")))

\* A run without confirmation has been rejected as a collision, and a backup
\* holds the source's bytes: the target had them before an earlier run wrote
\* the bytes it has now.
C25_Witness ==
  /\ RunEndedWithoutWrite
  /\ reason = "collision"
  /\ SameStemDiffer
  /\ ~cfg.require_confirmation
  /\ \E b \in BackupNames(target_file) : fs[b] = fs[source_file]

====
